---- MODULE Spec2Model ----
(***************************************************************************)
(* A model of the layout-reconstruction pipeline of h5_demo                *)
(* (src/src/postprocess.ts, src/src/index.ts, src/src/vnode/helpers.ts,    *)
(* src/src/utils.ts, src/src/preprocess/stylishText.ts).                   *)
(*                                                                         *)
(* Nodes live in a heap (a sequence of records, a node's id is its        *)
(* position), because the code shares node objects between lists and      *)
(* mutates them through those references.  Lengths are kept in units of    *)
(* 1/Unit pixel: the code halves rounded pixel values, so half pixels      *)
(* occur.  An absent list (children, attachNodes undefined) is the empty   *)
(* sequence; an absent spec, direction or role is the empty string, which  *)
(* is also the value of SizeSpec.Unknown and Direction.Unknown.            *)
(***************************************************************************)
EXTENDS Integers, Sequences, FiniteSets, TLC

VARIABLES
    heap,           \* the node objects: Seq of VNode records
    root,           \* id of the node the operation under study works on
    pc,             \* position of the program
    stack,          \* pending calls of the tree walks (buildTree, measureTree)
    ctxIndex,       \* context.index, the shared node-id counter
    defaultConfig,  \* the module-level configuration object
    runs,           \* finished conversions: what was asked and what came out
    out             \* results of the pure functions under study

vars == <<heap, root, pc, stack, ctxIndex, defaultConfig, runs, out>>

(***************************************************************************)
(* Numbers                                                                 *)
(***************************************************************************)
Unit == 2
Px(n) == n * Unit

TOLERANCE == 2

Abs(x) == IF x < 0 THEN -x ELSE x
Max2(a, b) == IF a >= b THEN a ELSE b
Min2(a, b) == IF a <= b THEN a ELSE b

\* Math.round(p / q) for q > 0: the nearest integer, a half rounding up.
RoundDiv(p, q) == (2 * p + q) \div (2 * q)

\* Math.round of a length, as a length again.
RoundLen(x) == Px(RoundDiv(x, Unit))

numSame(num1, num2) == Abs(num1 - num2) <= Px(TOLERANCE)

\* The tolerance comparisons helpers.ts and the second justification engine
\* import from utils; that version of utils is not among the sources.
numEq(num1, num2) == Abs(num1 - num2) <= Px(TOLERANCE)
numLt(num1, num2) == num1 - num2 < -Px(TOLERANCE)
numLte(num1, num2) == num1 - num2 <= Px(TOLERANCE)
numGt(num1, num2) == num1 - num2 > Px(TOLERANCE)
numGte(num1, num2) == num1 - num2 >= -Px(TOLERANCE)

(***************************************************************************)
(* Nodes                                                                   *)
(***************************************************************************)
Unknown == ""
Fixed == "Fixed"
Auto == "Auto"
Constrained == "Constrained"
Row == "Row"
Column == "Column"

\* A node as the input stage hands it over: bounds only.
VNode(l, t, r, b, idx) ==
    [left |-> l, top |-> t, right |-> r, bottom |-> b,
     width |-> r - l, height |-> b - t,
     widthSpec |-> Unknown, heightSpec |-> Unknown, direction |-> Unknown,
     role |-> "", children |-> <<>>, attachNodes |-> <<>>,
     classList |-> <<>>, text |-> "none", index |-> idx]

(***************************************************************************)
(* Geometry predicates, exact (postprocess.ts)                             *)
(***************************************************************************)
isContainedWithinX(child, parent) ==
    child.left >= parent.left /\ child.right <= parent.right

isContainedWithinY(child, parent) ==
    child.top >= parent.top /\ child.bottom <= parent.bottom

isContainedWithin(child, parent) ==
    isContainedWithinX(child, parent) /\ isContainedWithinY(child, parent)

isOverlappingX_swapped(child, parent) ==
    child.left < parent.left /\ child.right > parent.right

isOverlappingX(child, parent) ==
    child.left < parent.right /\ child.right > parent.left

isOverlappingY(child, parent) ==
    child.top < parent.bottom /\ child.bottom > parent.top

isOverlapping(child, parent) ==
    isOverlappingX(child, parent) /\ isOverlappingY(child, parent)

(***************************************************************************)
(* Geometry predicates, with tolerance (vnode/helpers.ts)                  *)
(***************************************************************************)
isContainedWithinX_h(child, parent) ==
    numGte(child.left, parent.left) /\ numLte(child.right, parent.right)

isContainedWithinY_h(child, parent) ==
    numGte(child.top, parent.top) /\ numLte(child.bottom, parent.bottom)

isContainedWithin_h(child, parent) ==
    isContainedWithinX_h(child, parent) /\ isContainedWithinY_h(child, parent)

isOverlappingX_h(child, parent) ==
    numLt(child.left, parent.right) /\ numGt(child.right, parent.left)

isOverlappingY_h(child, parent) ==
    numLt(child.top, parent.bottom) /\ numGt(child.bottom, parent.top)

isOverlapping_h(child, parent) ==
    isOverlappingX_h(child, parent) /\ isOverlappingY_h(child, parent)

(***************************************************************************)
(* Specification SpecGeom: the predicates on pairs of boxes                *)
(***************************************************************************)
GeoMaxPos == 2
GeoMaxSize == 5

GeoSpansX == {<<Px(l), Px(l + w)>> : l \in 0..GeoMaxPos, w \in 1..GeoMaxSize}
GeoSpansY == {<<Px(0), Px(1)>>, <<Px(0), Px(GeoMaxSize)>>, <<Px(1), Px(1 + GeoMaxSize)>>}
GeoBoxes == {VNode(x[1], y[1], x[2], y[2], 0) : x \in GeoSpansX, y \in GeoSpansY}

InitGeom ==
    /\ heap \in {<<a, b>> : a \in GeoBoxes, b \in GeoBoxes}
    /\ root = 1
    /\ pc = "geom"
    /\ stack = <<>>
    /\ ctxIndex = 0
    /\ defaultConfig = [multiLineTextFixedWidth |-> FALSE]
    /\ runs = <<>>
    /\ out = [op |-> "none"]

\* Both families of predicates applied to the pair (child heap[1], parent heap[2]).
ComparePair ==
    /\ pc = "geom"
    /\ out' = [op |-> "geom",
               contained |-> isContainedWithin(heap[1], heap[2]),
               overlapping |-> isOverlapping(heap[1], heap[2]),
               contained_h |-> isContainedWithin_h(heap[1], heap[2]),
               overlapping_h |-> isOverlapping_h(heap[1], heap[2])]
    /\ pc' = "geomDone"
    /\ UNCHANGED <<heap, root, stack, ctxIndex, defaultConfig, runs>>

NextGeom == ComparePair

SpecGeom == InitGeom /\ [][NextGeom]_vars

\* A box wider and higher than twice the tolerance.
WiderThanSlack(a) ==
    a.width > 2 * Px(TOLERANCE) /\ a.height > 2 * Px(TOLERANCE)

\* C6 (as stated): containment implies overlap for all boxes of positive width
\* and height, for the exact predicates and for the tolerance predicates.
C6_ContainedImpliesOverlapping ==
    pc = "geomDone" =>
        /\ out.contained => out.overlapping
        /\ out.contained_h => out.overlapping_h

\* C6 (amended): containment implies overlap for the exact predicates on all
\* boxes of positive width and height, and for the tolerance predicates when
\* the contained box is wider and higher than twice the tolerance.
C6_ContainedImpliesOverlappingWide ==
    pc = "geomDone" =>
        /\ out.contained => out.overlapping
        /\ (WiderThanSlack(heap[1]) /\ out.contained_h) => out.overlapping_h

\* A wide box that sticks out of the other by less than the tolerance: contained
\* within tolerance though not exactly, and overlapping in both senses.
C6_Witness ==
    /\ pc = "geomDone"
    /\ WiderThanSlack(heap[1])
    /\ out.contained_h /\ ~out.contained
    /\ out.overlapping_h /\ out.overlapping

(***************************************************************************)
(* Tree Builder (postprocess.ts)                                           *)
(***************************************************************************)
Infinity == 1000000000

SeqToSet(s) == {s[i] : i \in 1..Len(s)}

\* maybeBorder returns undefined (falsy) when the node is no hairline.
maybeBorder(child, parent) ==
    IF numSame(child.width, Px(1))
    THEN numSame(child.left, parent.left) \/ numSame(child.right, parent.right)
    ELSE IF numSame(child.height, Px(1))
    THEN numSame(child.top, parent.top) \/ numSame(child.bottom, parent.bottom)
    ELSE FALSE

\* One turn of findBestParent's loop: st is (bestParent, minArea, type), with
\* bestParent = 0 for null; pp is the id of potentialParent.
\* One turn of findBestParent's loop that looks at containment only.
findBestParentStep_containedOnly(h, node, pp, st) ==
    LET area == h[pp].width * h[pp].height
    IN  IF pp = node THEN st
        ELSE IF isContainedWithin(h[node], h[pp]) /\ area < st.minArea
        THEN [st EXCEPT !.minArea = area, !.bestParent = pp]
        ELSE st

findBestParentStep(h, node, pp, st) ==
    LET area == h[pp].width * h[pp].height
        nodeArea == h[node].width * h[node].height
    IN  IF pp = node THEN st
        ELSE IF isContainedWithin(h[node], h[pp]) /\ st.type = "contained"
        THEN IF area < st.minArea
             THEN [st EXCEPT !.minArea = area, !.bestParent = pp]
             ELSE st
        ELSE IF isOverlapping(h[node], h[pp]) /\ ~isContainedWithin(h[pp], h[node])
        THEN IF area >= nodeArea /\ h[node].index > h[pp].index /\ area < st.minArea
             THEN [st EXCEPT !.type = "overlapping", !.minArea = area, !.bestParent = pp]
             ELSE [st EXCEPT !.type = "overlapping"]
        ELSE st

RECURSIVE findBestParentFrom(_, _, _, _, _)
findBestParentFrom(h, node, nodes, i, st) ==
    IF i > Len(nodes) THEN st
    ELSE findBestParentFrom(h, node, nodes, i + 1, findBestParentStep(h, node, nodes[i], st))

findBestParent(h, node, nodes) ==
    findBestParentFrom(h, node, nodes, 1,
        [bestParent |-> 0, minArea |-> Infinity, type |-> "contained"])

\* The filter callback of buildMissingNodes for nodes[i], then the rest of the
\* list; kept collects the nodes the callback keeps.  parent.children is
\* assigned when the filter has seen every node.
RECURSIVE buildMissingNodesFrom(_, _, _, _, _)
buildMissingNodesFrom(h, parent, nodes, i, kept) ==
    IF i > Len(nodes) THEN [h EXCEPT ![parent].children = kept]
    ELSE
      LET node == nodes[i]
          found == findBestParent(h, node, nodes)
          best == found.bestParent
      IN  IF best # 0
          THEN IF found.type = "contained"
               THEN buildMissingNodesFrom(
                        [h EXCEPT ![best].children = Append(@, node)],
                        parent, nodes, i + 1, kept)
               ELSE buildMissingNodesFrom(
                        [h EXCEPT ![best].attachNodes = Append(@, node)],
                        parent, nodes, i + 1, kept)
          ELSE IF found.type = "overlapping"
          THEN buildMissingNodesFrom(
                   [h EXCEPT ![parent].attachNodes = Append(@, node)],
                   parent, nodes, i + 1, kept)
          ELSE IF maybeBorder(h[node], h[parent])
          THEN buildMissingNodesFrom(
                   [h EXCEPT ![node].role = "border",
                             ![parent].attachNodes = Append(@, node)],
                   parent, nodes, i + 1, kept)
          ELSE buildMissingNodesFrom(h, parent, nodes, i + 1, Append(kept, node))

buildMissingNodes(h, parent) ==
    buildMissingNodesFrom(h, parent, h[parent].children, 1, <<>>)

(***************************************************************************)
(* Ownership: who holds a node in its children or attachNodes              *)
(***************************************************************************)
Ids(h) == 1..Len(h)

Owned(h, n) == SeqToSet(h[n].children) \cup SeqToSet(h[n].attachNodes)

Occurrences(s, x) == Cardinality({i \in 1..Len(s) : s[i] = x})

\* How many list slots of the whole heap hold node x.
OwnerCount(h, x) ==
    LET cnt[n \in 0..Len(h)] ==
            IF n = 0 THEN 0
            ELSE cnt[n - 1] + Occurrences(h[n].children, x)
                            + Occurrences(h[n].attachNodes, x)
    IN  cnt[Len(h)]

\* The nodes reachable from the nodes of S along ownership, S excluded unless
\* reached again.
RECURSIVE ReachFrom(_, _, _)
ReachFrom(h, frontier, seen) ==
    LET next == UNION {Owned(h, n) : n \in frontier} \ seen
    IN  IF next = {} THEN seen ELSE ReachFrom(h, next, seen \cup next)

Descendants(h, n) == ReachFrom(h, {n}, {})

(***************************************************************************)
(* Specification SpecBuild: buildMissingNodes on one sibling list          *)
(***************************************************************************)
MaxSiblings == 3

BuildSpansX == {<<0, 10>>, <<0, 6>>, <<4, 10>>, <<3, 5>>, <<0, 1>>}
BuildSpansY == {<<0, 10>>, <<2, 6>>, <<0, 1>>}
BuildBoxes == {<<x, y>> : x \in BuildSpansX, y \in BuildSpansY}

\* heap[1] is the parent, heap[2..k+1] its children in list order; the layer
\* stamps (index) of the children are any order of 1..k.
BuildHeap(boxes, stamp) ==
    LET k == Len(boxes)
    IN  [n \in 1..(k + 1) |->
            IF n = 1
            THEN [VNode(Px(0), Px(0), Px(10), Px(10), 0)
                     EXCEPT !.children = [i \in 1..k |-> i + 1]]
            ELSE LET b == boxes[n - 1]
                 IN  VNode(Px(b[1][1]), Px(b[2][1]), Px(b[1][2]), Px(b[2][2]),
                           stamp[n - 1])]

InitBuild ==
    /\ \E k \in 1..MaxSiblings :
         \E boxes \in [1..k -> BuildBoxes], stamp \in Permutations(1..k) :
            heap = BuildHeap(boxes, stamp)
    /\ root = 1
    /\ pc = "siblings"
    /\ stack = <<>>
    /\ ctxIndex = 0
    /\ defaultConfig = [multiLineTextFixedWidth |-> FALSE]
    /\ runs = <<>>
    /\ out = [op |-> "none"]

BuildMissingNodes ==
    /\ pc = "siblings"
    /\ heap' = buildMissingNodes(heap, root)
    /\ out' = [op |-> "buildMissingNodes", nodes |-> heap[root].children]
    /\ pc' = "siblingsBuilt"
    /\ UNCHANGED <<root, stack, ctxIndex, defaultConfig, runs>>

NextBuild == BuildMissingNodes

SpecBuild == InitBuild /\ [][NextBuild]_vars

\* C2: after buildMissingNodes every node placed in some node's children is
\* contained in that node's bounds, and every node placed in an attachNodes
\* list overlaps its owner and is contained by no node of the original
\* sibling list.
C2_ChildrenContainedAttachNot ==
    pc = "siblingsBuilt" =>
        \A n \in Ids(heap) :
            /\ \A c \in SeqToSet(heap[n].children) :
                    isContainedWithin(heap[c], heap[n])
            /\ \A a \in SeqToSet(heap[n].attachNodes) :
                    /\ isOverlapping(heap[a], heap[n])
                    /\ \A s \in SeqToSet(out.nodes) :
                            s # a => ~isContainedWithin(heap[a], heap[s])

\* C3: after buildMissingNodes ownership is a strict tree: every input sibling
\* is reachable from the parent, is held in exactly one list slot, and is not
\* a descendant of itself.
C3_OwnershipIsTree ==
    pc = "siblingsBuilt" =>
        \A s \in SeqToSet(out.nodes) :
            /\ s \in Descendants(heap, root)
            /\ OwnerCount(heap, s) = 1
            /\ s \notin Descendants(heap, s)


(***************************************************************************)
(* Class strings.  An entry of classList is one pushed string, kept as the *)
(* sequence of its space-separated words; a word is the sequence of the    *)
(* pieces it is made of (one, unless R glued pieces together), and a piece *)
(* is <<name>> for a keyword or <<name, value>> for `name-${value}`.       *)
(***************************************************************************)
Kw(name) == <<name>>
Tok(name, value) == <<name, value>>
Cls(name) == <<<<Kw(name)>>>>

\* The pattern /(\s?\S+?-)(-?\d+)(\s|$)/ matches a piece that ends in a whole
\* number of pixels; a keyword or a value with a fraction is left alone.
RMatches(tok) == Len(tok) = 2 /\ tok[2] % Unit = 0

REmit(acc, piece, glue) ==
    IF glue /\ acc # <<>>
    THEN [acc EXCEPT ![Len(acc)] = @ \o <<piece>>]
    ELSE Append(acc, <<piece>>)

\* R, piece by piece.  avail: the space in front of the piece has not been
\* consumed as the $3 of the previous match, so it becomes part of $1; glue:
\* no space is left between the text so far and what this piece produces.
\*   - negative value: the sign moves in front of $1 (in front of the space
\*     when $1 begins with it, which leaves a "-" stuck to the previous word);
\*   - value 0: the whole match, its spaces included, is replaced by '';
\*   - otherwise the match is put back unchanged.
RECURSIVE RFrom(_, _, _, _, _)
RFrom(toks, i, acc, avail, glue) ==
    IF i > Len(toks) THEN acc
    ELSE LET tok == toks[i] IN
         IF ~RMatches(tok)
         THEN RFrom(toks, i + 1, REmit(acc, tok, glue), TRUE, FALSE)
         ELSE IF tok[2] < 0
         THEN IF avail
              THEN RFrom(toks, i + 1,
                         Append(REmit(acc, Kw("-"), TRUE), <<Tok(tok[1], -tok[2])>>),
                         FALSE, FALSE)
              ELSE RFrom(toks, i + 1,
                         REmit(acc, Tok("-" \o tok[1], -tok[2]), glue), FALSE, FALSE)
         ELSE IF tok[2] = 0
         THEN RFrom(toks, i + 1, acc, FALSE, (avail \/ glue) /\ i < Len(toks))
         ELSE RFrom(toks, i + 1, REmit(acc, tok, glue), FALSE, FALSE)

R(toks) == RFrom(toks, 1, <<>>, FALSE, FALSE)

push(h, n, entry) == [h EXCEPT ![n].classList = Append(@, entry)]

includes(classList, entry) == \E i \in 1..Len(classList) : classList[i] = entry

\* The classes an element ends up with: the words of the joined classList.
RECURSIVE Words(_)
Words(classList) ==
    IF classList = <<>> THEN {}
    ELSE {Head(classList)[j] : j \in 1..Len(Head(classList))} \cup Words(Tail(classList))

HasClass(classList, piece) == <<piece>> \in Words(classList)

(***************************************************************************)
(* Attach Positioner (postprocess.ts)                                      *)
(***************************************************************************)
\* One axis of measureAttachPosition for attachNode a: spec is "widthSpec" or
\* "heightSpec", extent the matching dimension, near/far the two offsets.
attachAxis_anchorFar(h, parent, a, spec, extent, nearName, near, farName, far) ==
    IF h[a][spec] = Fixed
    THEN IF Abs(near) > Abs(far)
         THEN push(h, a, R(<<Tok(nearName, near)>>))
         ELSE push(h, a, R(<<Tok(farName, far)>>))
    ELSE IF h[a][extent] * 2 > h[parent][extent]
    THEN [push(h, a, R(<<Tok(nearName, near), Tok(farName, far)>>))
             EXCEPT ![a][spec] = Constrained]
    ELSE LET h1 == IF h[a].children = <<>> THEN [h EXCEPT ![a][spec] = Fixed] ELSE h
         IN  IF Abs(near) > Abs(far)
             THEN push(h1, a, R(<<Tok(nearName, near)>>))
             ELSE push(h1, a, R(<<Tok(farName, far)>>))

attachAxis(h, parent, a, spec, extent, nearName, near, farName, far) ==
    IF h[a][spec] = Fixed
    THEN IF Abs(near) < Abs(far)
         THEN push(h, a, R(<<Tok(nearName, near)>>))
         ELSE push(h, a, R(<<Tok(farName, far)>>))
    ELSE IF h[a][extent] * 2 > h[parent][extent]
    THEN [push(h, a, R(<<Tok(nearName, near), Tok(farName, far)>>))
             EXCEPT ![a][spec] = Constrained]
    ELSE LET h1 == IF h[a].children = <<>> THEN [h EXCEPT ![a][spec] = Fixed] ELSE h
         IN  IF Abs(near) < Abs(far)
             THEN push(h1, a, R(<<Tok(nearName, near)>>))
             ELSE push(h1, a, R(<<Tok(farName, far)>>))

\* The callback of measureAttachPosition for one attach node.
measureAttachNode(h, parent, a) ==
    LET left == h[a].left - h[parent].left
        right == h[parent].right - h[a].right
        top == h[a].top - h[parent].top
        bottom == h[parent].bottom - h[a].bottom
        h1 == IF \E c \in {Cls("relative"), Cls("absolute"), Cls("fixed")} :
                    includes(h[parent].classList, c)
              THEN h
              ELSE push(h, parent, Cls("relative"))
        h2 == push(h1, a, Cls("absolute"))
        h3 == attachAxis(h2, parent, a, "widthSpec", "width", "left", left, "right", right)
    IN  attachAxis(h3, parent, a, "heightSpec", "height", "top", top, "bottom", bottom)

RECURSIVE measureAttachFrom(_, _, _, _)
measureAttachFrom(h, parent, attachNodes, i) ==
    IF i > Len(attachNodes) THEN h
    ELSE measureAttachFrom(measureAttachNode(h, parent, attachNodes[i]),
                           parent, attachNodes, i + 1)

measureAttachPosition(h, parent) ==
    measureAttachFrom(h, parent, h[parent].attachNodes, 1)

(***************************************************************************)
(* Specification SpecAttach: measureAttachPosition on one parent           *)
(***************************************************************************)
MaxAttach == 2

\* <<left, right>> x <<top, bottom>> of an overlay, in pixels.
AttachBoxes ==
    {<<<<0, 5>>, <<0, 20>>>>, <<<<-2, 4>>, <<3, 9>>>>, <<<<12, 20>>, <<12, 18>>>>,
     <<<<5, 15>>, <<3, 9>>>>, <<<<4, 15>>, <<3, 9>>>>, <<<<4, 15>>, <<0, 20>>>>,
     <<<<6, 14>>, <<12, 18>>>>, <<<<12, 20>>, <<5, 18>>>>}
AttachSpecs == {Fixed, Auto}

\* heap[1] is the parent, a 20 x 20 box already measured; heap[2..k+1] are its
\* attach nodes, as buildTree leaves them: both specs Fixed or Auto.  An attach
\* node with kids[i] holds one child, heap[k+1+i].
AttachHeap(k, spans, specs, kids, positioned) ==
    [n \in 1..(2 * k + 1) |->
        IF n = 1
        THEN [VNode(Px(0), Px(0), Px(20), Px(20), 0)
                 EXCEPT !.attachNodes = [i \in 1..k |-> i + 1],
                        !.widthSpec = Fixed, !.heightSpec = Fixed,
                        !.classList = IF positioned THEN <<Cls("absolute")>> ELSE <<>>]
        ELSE IF n <= k + 1
        THEN LET b == spans[n - 1]
             IN  [VNode(Px(b[1][1]), Px(b[2][1]), Px(b[1][2]), Px(b[2][2]), n - 1)
                     EXCEPT !.widthSpec = specs[n - 1][1],
                            !.heightSpec = specs[n - 1][2],
                            !.direction = IF kids[n - 1] THEN Row ELSE Unknown,
                            !.children = IF kids[n - 1] THEN <<n + k>> ELSE <<>>]
        ELSE LET b == spans[n - k - 1]
             IN  [VNode(Px(b[1][1]), Px(b[2][1]), Px(b[1][2]), Px(b[2][2]), n - 1)
                     EXCEPT !.widthSpec = Fixed, !.heightSpec = Fixed]]

InitAttach ==
    /\ \E k \in 1..MaxAttach :
         \E spans \in [1..k -> AttachBoxes],
            specs \in [1..k -> AttachSpecs \X AttachSpecs],
            kids \in [1..k -> BOOLEAN],
            positioned \in BOOLEAN :
            heap = AttachHeap(k, spans, specs, kids, positioned)
    /\ root = 1
    /\ pc = "attach"
    /\ stack = <<>>
    /\ ctxIndex = 0
    /\ defaultConfig = [multiLineTextFixedWidth |-> FALSE]
    /\ runs = <<>>
    /\ out = [op |-> "none"]

MeasureAttachPosition ==
    /\ pc = "attach"
    /\ heap' = measureAttachPosition(heap, root)
    /\ out' = [op |-> "measureAttachPosition", before |-> heap]
    /\ pc' = "attachDone"
    /\ UNCHANGED <<root, stack, ctxIndex, defaultConfig, runs>>

NextAttach == MeasureAttachPosition

SpecAttach == InitAttach /\ [][NextAttach]_vars

\* The anchors the claim's rule asks for on one axis, as (name, offset) pairs
\* in the order the code writes them; either edge when the offsets tie.
C10_Anchors(spec, extent, parentExtent, nearName, near, farName, far) ==
    IF spec # Fixed /\ extent * 2 > parentExtent
    THEN {<<Tok(nearName, near), Tok(farName, far)>>}
    ELSE {<<Tok(nearName, near)>> : x \in {1} \cap {y \in {1} : Abs(near) <= Abs(far)}}
         \cup {<<Tok(farName, far)>> : x \in {1} \cap {y \in {1} : Abs(far) <= Abs(near)}}

\* The spec the claim's rule asks for on one axis.
C10_Spec(spec, extent, parentExtent, noChildren) ==
    IF spec = Fixed THEN Fixed
    ELSE IF extent * 2 > parentExtent THEN Constrained
    ELSE IF noChildren THEN Fixed
    ELSE spec

\* The edges named by the anchor classes of a class list.
C10_Edges(classList) ==
    {e \in {"left", "right", "top", "bottom"} :
        \E w \in Words(classList) : Len(w[1]) = 2 /\ w[1][1] \in {e, "-" \o e}}

C10_EdgesOf(toks) == {toks[i][1] : i \in 1..Len(toks)}

\* C10 (as stated): per axis, a Fixed overlay gets one anchor toward the edge
\* with the smaller offset and stays Fixed; else an overlay larger than half
\* the parent gets both anchors and becomes Constrained; else it gets one
\* anchor toward the nearer edge and, without children, becomes Fixed.
C10_AttachDecision ==
    pc = "attachDone" =>
        \A i \in 1..Len(heap[root].attachNodes) :
            LET a == heap[root].attachNodes[i]
                b == out.before[a]
                p == out.before[root]
                noKids == b.children = <<>>
            IN  /\ heap[a].widthSpec = C10_Spec(b.widthSpec, b.width, p.width, noKids)
                /\ heap[a].heightSpec = C10_Spec(b.heightSpec, b.height, p.height, noKids)
                /\ \E ax \in C10_Anchors(b.widthSpec, b.width, p.width,
                                "left", b.left - p.left, "right", p.right - b.right),
                      ay \in C10_Anchors(b.heightSpec, b.height, p.height,
                                "top", b.top - p.top, "bottom", p.bottom - b.bottom) :
                        C10_Edges(heap[a].classList) = C10_EdgesOf(ax) \cup C10_EdgesOf(ay)

\* C10 (amended): the same decision, where an anchor whose offset is 0 is not
\* written (R cuts a zero-valued class out) and a negative offset is written
\* with the sign in front of the class name; the overlay's class list is
\* "absolute", then the horizontal anchors, then the vertical ones.
C10_AttachDecisionNonZero ==
    pc = "attachDone" =>
        \A i \in 1..Len(heap[root].attachNodes) :
            LET a == heap[root].attachNodes[i]
                b == out.before[a]
                p == out.before[root]
                noKids == b.children = <<>>
            IN  /\ heap[a].widthSpec = C10_Spec(b.widthSpec, b.width, p.width, noKids)
                /\ heap[a].heightSpec = C10_Spec(b.heightSpec, b.height, p.height, noKids)
                /\ \E ax \in C10_Anchors(b.widthSpec, b.width, p.width,
                                "left", b.left - p.left, "right", p.right - b.right),
                      ay \in C10_Anchors(b.heightSpec, b.height, p.height,
                                "top", b.top - p.top, "bottom", p.bottom - b.bottom) :
                        heap[a].classList = b.classList \o <<Cls("absolute"), R(ax), R(ay)>>

\* The three cases on one overlay pair: a Fixed axis, a stretched axis and a
\* small overlay without children that gets fixed, all with non-zero offsets.
C10_Witness ==
    /\ pc = "attachDone"
    /\ \E i \in 1..Len(heap[root].attachNodes) :
          LET a == heap[root].attachNodes[i]
              b == out.before[a]
          IN  /\ b.widthSpec = Auto /\ b.width * 2 > heap[root].width
              /\ heap[a].widthSpec = Constrained
              /\ b.heightSpec = Auto /\ b.height * 2 <= heap[root].height
              /\ b.children = <<>> /\ heap[a].heightSpec = Fixed
              /\ HasClass(heap[a].classList, Tok("left", Px(4)))
              /\ HasClass(heap[a].classList, Tok("right", Px(5)))
              /\ HasClass(heap[a].classList, Tok("top", Px(3)))
    /\ \E i \in 1..Len(heap[root].attachNodes) :
          LET a == heap[root].attachNodes[i]
              b == out.before[a]
          IN  /\ b.widthSpec = Fixed /\ heap[a].widthSpec = Fixed
              /\ HasClass(heap[a].classList, Tok("-left", Px(2)))


(***************************************************************************)
(* Justification Engine, postprocess.ts                                    *)
(***************************************************************************)
\* Side and class-letter names of the main axis of a container.
ssfOf(parent) == IF parent.direction = Row THEN "left" ELSE "top"
eefOf(parent) == IF parent.direction = Row THEN "right" ELSE "bottom"
ssOf(parent) == IF parent.direction = Row THEN "l" ELSE "t"
eeOf(parent) == IF parent.direction = Row THEN "r" ELSE "b"
xyOf(parent) == IF parent.direction = Row THEN "x" ELSE "y"
justifySpecOf(parent) == IF parent.direction = Row THEN "widthSpec" ELSE "heightSpec"
justifyDimensionOf(parent) == IF parent.direction = Row THEN "width" ELSE "height"

\* ranges: element i pairs the start of child i (the end of the parent after
\* the last child) with the end of child i-1 (the start of the parent before
\* the first child).
rangesOf(h, parent) ==
    LET ch == h[parent].children
        n == Len(ch)
        ssf == ssfOf(h[parent])
        eef == eefOf(h[parent])
    IN  [i \in 1..(n + 1) |->
            <<IF i <= n THEN h[ch[i]][ssf] ELSE h[parent][eef],
              IF i = 1 THEN h[parent][ssf] ELSE h[ch[i - 1]][eef]>>]

allGapsOf(ranges) == [i \in 1..Len(ranges) |-> ranges[i][1] - ranges[i][2]]

\* gaps after shift() and pop()
middleGapsOf(all) == SubSeq(all, 2, Len(all) - 1)

uniqWithIsOne_exact(gaps) == Len(gaps) >= 1 /\ \A i \in 1..Len(gaps) : gaps[1] = gaps[i]

\* _.uniqWith(gaps, numSame).length === 1 : every element is dropped as a
\* duplicate of the first one.
uniqWithIsOne(gaps) == Len(gaps) >= 1 /\ \A i \in 1..Len(gaps) : numSame(gaps[1], gaps[i])

RECURSIVE MaxOf(_)
MaxOf(s) == IF Len(s) = 1 THEN s[1] ELSE Max2(s[1], MaxOf(Tail(s)))

indexOf(s, x) == CHOOSE i \in 1..Len(s) : s[i] = x /\ \A j \in 1..(i - 1) : s[j] # x
lastIndexOf(s, x) == CHOOSE i \in 1..Len(s) : s[i] = x /\ \A j \in (i + 1)..Len(s) : s[j] # x

\* children.splice(at, 0, x), gaps.splice(at, 0, x): x becomes element at.
InsertAt(s, at, x) == SubSeq(s, 1, at - 1) \o <<x>> \o SubSeq(s, at, Len(s))

\* children[i].classList.push(R`<name>-${gaps[i]}`) for i = from..Len(gaps),
\* child i being children[i + shift].
RECURSIVE pushEach(_, _, _, _, _, _)
pushEach(h, children, name, gaps, i, shift) ==
    IF i > Len(gaps) THEN h
    ELSE pushEach(push(h, children[i + shift], R(<<Tok(name, gaps[i])>>)),
                  children, name, gaps, i + 1, shift)

\* Math.round(parent.bounds[sf] + parent.bounds[ef] / 2)
flex1Pos(sfv, efv) == Px((2 * sfv + efv + 2) \div 4)


\* The spacer record of justifyFlex1: no children, no direction, and only the
\* main-axis spec is given.
flex1Node(parent, pos, ssfn, eefn, idx) ==
    IF parent.direction = Row
    THEN [VNode(ssfn, pos, eefn, pos, idx)
             EXCEPT !.width = eefn - ssfn, !.height = 0,
                    !.classList = <<Cls("flex-1")>>, !.widthSpec = Constrained]
    ELSE [VNode(pos, ssfn, pos, eefn, idx)
             EXCEPT !.height = eefn - ssfn, !.width = 0,
                    !.classList = <<Cls("flex-1")>>, !.heightSpec = Constrained]

justifyFlex1(h, parent, ctx, ranges, startGap, endGap, middle) ==
    LET p == h[parent]
        gaps1 == <<startGap>> \o middle
        flex1GapIndex == indexOf(gaps1, MaxOf(gaps1))
        gaps2 == InsertAt([gaps1 EXCEPT ![flex1GapIndex] = 0], flex1GapIndex, 0)
        sf == IF p.direction = Row THEN "top" ELSE "left"
        ef == IF p.direction = Row THEN "bottom" ELSE "right"
        pos == flex1Pos(p[sf], p[ef])
        eefn == ranges[flex1GapIndex][1]
        ssfn == ranges[flex1GapIndex][2]
        id == Len(h) + 1
        h1 == [Append(h, flex1Node(p, pos, ssfn, eefn, ctx))
                  EXCEPT ![parent].children = InsertAt(@, flex1GapIndex, id)]
        same == numSame(startGap, endGap)
        gaps3 == IF same THEN [gaps2 EXCEPT ![1] = 0] ELSE gaps2
        h2 == IF same
              THEN push(h1, parent, R(<<Tok("p" \o xyOf(p), startGap)>>))
              ELSE push(h1, parent, R(<<Tok("p" \o eeOf(p), endGap)>>))
    IN  IF Len(gaps1) < 2
        THEN [heap |-> h, index |-> ctx, status |-> "error"]
        ELSE [heap |-> pushEach(h2, h1[parent].children, "m" \o ssOf(p), gaps3, 1, 0),
              index |-> ctx + 1, status |-> "ok"]

isMultiLineText(vnode) == vnode.text = "multi"

isFlexWrapLike(vnode) == vnode.role = "list-wrap" \/ isMultiLineText(vnode)

\* if / else-if chain shared by the first two branches of measureFlexJustify
edgeJustify(h, parent, startGap, endGap) ==
    LET p == h[parent] IN
    IF numSame(startGap, endGap) THEN push(h, parent, Cls("justify-center"))
    ELSE IF startGap < endGap THEN push(h, parent, R(<<Tok("p" \o ssOf(p), startGap)>>))
    ELSE push(h, parent, R(<<Kw("justify-end"), Tok("p" \o eeOf(p), startGap)>>))

measureFlexJustify(h, parent, ctx) ==
    LET p == h[parent]
        children == p.children
        ranges == rangesOf(h, parent)
        all == allGapsOf(ranges)
        startGap == all[1]
        endGap == all[Len(all)]
        gaps == middleGapsOf(all)
        equalMiddleGaps == Len(gaps) > 1 /\ uniqWithIsOne(gaps)
        ok(hh) == [heap |-> hh, index |-> ctx, status |-> "ok"]
    IN  IF gaps = <<>> \/ (equalMiddleGaps /\ numSame(gaps[1], 0))
        THEN IF Len(children) = 1 /\ justifySpecOf(p) = "widthSpec" /\ isFlexWrapLike(h[children[1]])
             THEN ok(h)
             ELSE ok(edgeJustify(h, parent, startGap, endGap))
        ELSE IF equalMiddleGaps
        THEN LET sameGap == gaps[1] IN
             IF numSame(startGap, endGap) /\ numSame(startGap * 2, gaps[1]) /\ startGap # 0
             THEN ok(push(h, parent, Cls("justify-around")))
             ELSE IF sameGap > startGap /\ sameGap > endGap
             THEN ok(push(h, parent, R(<<Kw("justify-between"),
                                         Tok("p" \o ssOf(p), startGap),
                                         Tok("p" \o eeOf(p), endGap)>>)))
             ELSE LET h1 == edgeJustify(h, parent, startGap, endGap) IN
                  IF Len(gaps) = 1
                  THEN ok(push(h1, children[1], R(<<Tok("m" \o eeOf(p), sameGap)>>)))
                  ELSE ok(push(h1, parent, R(<<Tok("space-" \o xyOf(p), sameGap)>>)))
        ELSE LET maxGap == MaxOf(gaps) IN
             IF maxGap > startGap /\ maxGap > endGap
             THEN justifyFlex1(h, parent, ctx, ranges, startGap, endGap, gaps)
             ELSE IF numSame(startGap, endGap)
             THEN ok(pushEach(push(h, parent, Cls("justify-center")),
                              children, "m" \o ssOf(p), gaps, 1, 1))
             ELSE IF startGap < endGap
             THEN ok(pushEach(push(h, parent, Cls("justify-start")),
                              children, "m" \o ssOf(p), <<startGap>> \o gaps, 1, 0))
             ELSE ok(pushEach(push(h, parent, Cls("justify-end")),
                              children, "m" \o eeOf(p), Append(gaps, endGap), 1, 0))


(***************************************************************************)
(* Justification Engine, index.ts.  The helpers it imports are not among   *)
(* the sources: the numeric ones follow the tolerance rule of the          *)
(* specification; autoMaybeClamp, canChildStretchWithParent and            *)
(* expandOverflowChild are answered by an oracle o, one Boolean per child  *)
(* position, that the action draws.                                        *)
(***************************************************************************)
NoIndex == -1

allNumsEqual(gaps) == \A i \in 1..Len(gaps) : numEq(gaps[1], gaps[i])

isListContainer(vnode) == vnode.role \in {"list-x", "list-y", "list-wrap"}

autoMaybeClamp(o, i) == o.clamp[i]
canChildStretchWithParent(o, i) == o.stretch[i]

\* expandOverflowChild may turn the child into a flexible one, or leave it.
expandOverflowChild(h, child, justifySpec, o, i) ==
    IF o.expand[i] THEN [h EXCEPT ![child][justifySpec] = Constrained] ELSE h

hasConstrainedChilds(h, parent, justifySpec) ==
    \E i \in 1..Len(h[parent].children) : h[h[parent].children[i]][justifySpec] = Constrained

\* The callback of decideChildrenJustifySpec for the child at position i;
\* "error" stands for a failed assert.
decideChildJustifySpec(h, parent, i, o) ==
    LET p == h[parent]
        justifySpec == justifySpecOf(p)
        c == p.children[i]
        child == h[c]
        set(v) == [heap |-> [h EXCEPT ![c][justifySpec] = v], status |-> "ok"]
        keep == [heap |-> h, status |-> "ok"]
        fail == [heap |-> h, status |-> "error"]
    IN  IF child[justifySpec] = Constrained
        THEN IF p[justifySpec] = Fixed THEN set(Fixed) ELSE keep
        ELSE IF child[justifySpec] = Auto
        THEN IF autoMaybeClamp(o, i) THEN keep
             ELSE IF isFlexWrapLike(child)
             THEN IF justifySpec # "widthSpec" THEN fail
                  ELSE IF p[justifySpec] = Constrained THEN set(Constrained)
                  ELSE set(Fixed)
             ELSE IF p[justifySpec] = Constrained /\ canChildStretchWithParent(o, i)
             THEN set(Constrained)
             ELSE keep
        ELSE IF child[justifySpec] = Unknown
        THEN IF child.children # <<>> THEN fail
             ELSE IF p[justifySpec] = Fixed THEN set(Fixed)
             ELSE IF p[justifySpec] = Constrained /\ canChildStretchWithParent(o, i)
             THEN set(Constrained)
             ELSE set(Fixed)
        ELSE keep

RECURSIVE decideChildrenJustifySpecFrom(_, _, _, _)
decideChildrenJustifySpecFrom(h, parent, i, o) ==
    IF i > Len(h[parent].children) THEN [heap |-> h, status |-> "ok"]
    ELSE LET r == decideChildJustifySpec(h, parent, i, o)
         IN  IF r.status # "ok" THEN r
             ELSE decideChildrenJustifySpecFrom(r.heap, parent, i + 1, o)

decideChildrenJustifySpec(h, parent, o) == decideChildrenJustifySpecFrom(h, parent, 1, o)

RECURSIVE expandOverflowChildrenFrom(_, _, _, _)
expandOverflowChildrenFrom(h, parent, i, o) ==
    IF i > Len(h[parent].children) THEN h
    ELSE LET c == h[parent].children[i]
             justifySpec == justifySpecOf(h[parent])
         IN  expandOverflowChildrenFrom(
                 IF h[c][justifySpec] # Auto THEN h
                 ELSE expandOverflowChild(h, c, justifySpec, o, i),
                 parent, i + 1, o)

\* setSiblingsNoShrink touches none of the fields kept here.
expandOverflowChildrenIfPossible(h, parent, o) ==
    IF h[parent][justifySpecOf(h[parent])] # Constrained THEN h
    ELSE expandOverflowChildrenFrom(h, parent, 1, o)

getGapsAndSide(h, parent) ==
    LET ranges == rangesOf(h, parent)
        all == allGapsOf(ranges)
        startGap == all[1]
        endGap == all[Len(all)]
        gaps == middleGapsOf(all)
    IN  [startGap |-> startGap, endGap |-> endGap, gaps |-> gaps,
         equalMiddleGaps |-> allNumsEqual(gaps),
         justifySide |-> IF numEq(startGap, endGap) THEN "center"
                         ELSE IF numLte(startGap, endGap) THEN "start" ELSE "end",
         ranges |-> ranges]


\* Returns the pushed class string, <<>> standing for "returns false".  With
\* a single child gaps[0] is undefined and every comparison on it is false.
maybeSpaceJustify(h, parent, startGap, endGap, gaps) ==
    LET p == h[parent]
        justifySpec == justifySpecOf(p)
        sameGap == gaps[1]
    IN  IF gaps = <<>> THEN <<>>
        ELSE IF /\ ~numEq(sameGap, 0)
                /\ ~numEq(startGap, 0)
                /\ numEq(startGap, endGap)
                /\ numEq(startGap * 2, sameGap)
                /\ p[justifySpec] # Auto
        THEN <<Cls("justify-around")>>
        ELSE IF /\ ~numEq(sameGap, 0)
                /\ numGt(sameGap, startGap)
                /\ numGt(sameGap, endGap)
                /\ p[justifySpec] # Auto
        THEN <<R(<<Kw("justify-between"), Tok("p" \o ssOf(p), startGap),
                   Tok("p" \o eeOf(p), endGap)>>)>>
        ELSE <<>>

\* The position in gaps (from 1) of the gap to stretch, 0 for an early return.
flex1GapIndexOf(justifySide, startGap, endGap, gaps) ==
    IF justifySide = "center" /\ numLte(MaxOf(gaps), startGap * 2) THEN 0
    ELSE IF justifySide \in {"start", "center"}
    THEN LET gapsWithSide == Append(gaps, endGap)
             maxGap == MaxOf(gapsWithSide)
             at == lastIndexOf(gapsWithSide, maxGap)
         IN  IF at = Len(gaps) + 1 \/ maxGap = 0 THEN 0 ELSE at
    ELSE LET gapsWithSide == <<startGap>> \o gaps
             maxGap == MaxOf(gapsWithSide)
             at == indexOf(gapsWithSide, maxGap)
         IN  IF at = 1 \/ maxGap = 0 THEN 0 ELSE at - 1

\* The spacer of maybeInsertFlex1Node: both specs given, no index, and a main
\* extent of 0 unless the parent has a minimum size.
flex1Vnode(parent, pos, ssfn, eefn, flex1MinSize) ==
    IF parent.direction = Row
    THEN [VNode(ssfn, pos, eefn, pos, NoIndex)
             EXCEPT !.width = IF flex1MinSize THEN eefn - ssfn ELSE 0, !.height = 0,
                    !.widthSpec = Constrained, !.heightSpec = Fixed]
    ELSE [VNode(pos, ssfn, pos, eefn, NoIndex)
             EXCEPT !.height = IF flex1MinSize THEN eefn - ssfn ELSE 0, !.width = 0,
                    !.heightSpec = Constrained, !.widthSpec = Fixed]

\* Returns the heap and the gaps array, which the function edits in place.
maybeInsertFlex1Node(h, parent, flex1MinSize, justifySide, startGap, endGap, gaps, ranges) ==
    LET p == h[parent]
        k == flex1GapIndexOf(justifySide, startGap, endGap, gaps)
        sf == IF p.direction = Row THEN "top" ELSE "left"
        ef == IF p.direction = Row THEN "bottom" ELSE "right"
        pos == flex1Pos(p[sf], p[ef])
        eefn == ranges[k + 1][1]
        ssfn == ranges[k + 1][2]
        id == Len(h) + 1
    IN  IF k = 0 THEN [heap |-> h, gaps |-> gaps]
        ELSE [heap |-> [Append(h, flex1Vnode(p, pos, ssfn, eefn, flex1MinSize))
                           EXCEPT ![parent].children = InsertAt(@, k + 1, id)],
              gaps |-> SubSeq(gaps, 1, k - 1) \o <<0, 0>> \o SubSeq(gaps, k + 1, Len(gaps))]

RECURSIVE pushGrow(_, _, _)
pushGrow(h, parent, i) ==
    IF i > Len(h[parent].children) THEN h
    ELSE LET c == h[parent].children[i]
             p == h[parent]
         IN  pushGrow(IF h[c][justifySpecOf(p)] = Constrained
                      THEN push(h, c, R(<<Kw("grow"),
                                          Tok(IF p.direction = Row THEN "w" ELSE "h",
                                              h[c][justifyDimensionOf(p)])>>))
                      ELSE h,
                      parent, i + 1)

sideJustify(h, parent, justifySide, startGap, endGap, gaps, needEqualGaps) ==
    LET p == h[parent]
        justifySpec == justifySpecOf(p)
        children == p.children
        ss == ssOf(p)
        ee == eeOf(p)
        xy == xyOf(p)
        constrained == hasConstrainedChilds(h, parent, justifySpec)
        h1 == IF constrained THEN h
              ELSE IF justifySide = "center"
              THEN IF p[justifySpec] = Auto
                   THEN push(h, parent, R(<<Tok("p" \o xy, startGap)>>))
                   ELSE push(h, parent, Cls("justify-center"))
              ELSE IF justifySide = "start"
              THEN IF p[justifySpec] = Auto
                   THEN push(h, parent, R(<<Tok("p" \o ee, endGap)>>))
                   ELSE h
              ELSE LET hh == push(h, parent, Cls("justify-end"))
                   IN  IF p[justifySpec] = Auto
                       THEN push(hh, parent, R(<<Tok("p" \o ss, startGap)>>))
                       ELSE hh
        h2 == IF constrained
              THEN push(pushEach(h1, children, "m" \o ss, <<startGap>> \o gaps, 1, 0),
                        children[Len(children)], R(<<Tok("m" \o ee, endGap)>>))
              ELSE IF needEqualGaps
              THEN LET hh == push(h1, parent,
                                  IF gaps = <<>> THEN Cls("space-" \o xy \o "-undefined")
                                  ELSE R(<<Tok("space-" \o xy, gaps[1])>>))
                   IN  IF justifySide = "start"
                       THEN push(hh, parent, R(<<Tok("p" \o ss, startGap)>>))
                       ELSE IF justifySide = "end"
                       THEN push(hh, parent, R(<<Tok("p" \o ee, endGap)>>))
                       ELSE hh
              ELSE IF justifySide = "center"
              THEN pushEach(h1, children, "m" \o ss, gaps, 1, 1)
              ELSE IF justifySide = "start"
              THEN pushEach(h1, children, "m" \o ss, <<startGap>> \o gaps, 1, 0)
              ELSE pushEach(h1, children, "m" \o ee, Append(gaps, endGap), 1, 0)
    IN  pushGrow(h2, parent, 1)

\* getClassList(parent).some(className => className.startsWith(`min-w-`))
hasMinSizeClass(parent) ==
    \E w \in Words(parent.classList) :
        Len(w[1]) = 2 /\ w[1][1] = "min-" \o (IF parent.direction = Row THEN "w" ELSE "h")

index_measureFlexJustify(h, parent, o) ==
    LET justifySpec == justifySpecOf(h[parent])
        d == decideChildrenJustifySpec(h, parent, o)
        h1 == expandOverflowChildrenIfPossible(d.heap, parent, o)
        g == getGapsAndSide(h1, parent)
        p == h1[parent]
        constrained == hasConstrainedChilds(h1, parent, justifySpec)
        space == IF ~constrained /\ g.equalMiddleGaps /\ ~isListContainer(p)
                 THEN maybeSpaceJustify(h1, parent, g.startGap, g.endGap, g.gaps)
                 ELSE <<>>
        isParentAutoMinSize == p[justifySpec] = Auto /\ hasMinSizeClass(p)
        needEqualGaps == g.equalMiddleGaps /\ (Len(p.children) > 2 \/ isListContainer(p))
        needFlex1 == /\ (p[justifySpec] = Constrained \/ isParentAutoMinSize)
                     /\ Len(p.children) > 2
                     /\ ~needEqualGaps
                     /\ ~constrained
        f == IF needFlex1
             THEN maybeInsertFlex1Node(h1, parent, isParentAutoMinSize, g.justifySide,
                                       g.startGap, g.endGap, g.gaps, g.ranges)
             ELSE [heap |-> h1, gaps |-> g.gaps]
    IN  IF d.status # "ok" THEN d
        ELSE IF space # <<>> THEN [heap |-> push(h1, parent, space[1]), status |-> "ok"]
        ELSE [heap |-> sideJustify(f.heap, parent, g.justifySide, g.startGap, g.endGap,
                                   f.gaps, needEqualGaps),
              status |-> "ok"]


(***************************************************************************)
(* Specification SpecJustify: the two justification engines on one         *)
(* container whose children are leaves laid out along its main axis        *)
(***************************************************************************)
MaxJustifyChildren == 3
ChildExtent == 10

\* Gaps, in pixels: touching, inside the tolerance, two that are the same
\* within the tolerance, and a dominant one.
JustifyGaps == {0, 1, 10, 12, 30}
EdgeGaps == {0, 1, 10}

\* The main-axis specs of the children: all Fixed, or one child that is
\* content-sized (Auto), already flexible (Constrained) or a bare box whose
\* spec is still unset.
ChildSpecs(n) ==
    {[i \in 1..n |-> IF i = k THEN v ELSE Fixed] :
        k \in 1..n, v \in {Fixed, Auto, Constrained, Unknown}}

RECURSIVE SumTo(_, _)
SumTo(s, i) == IF i = 0 THEN 0 ELSE s[i] + SumTo(s, i - 1)

\* heap[1] is the container, heap[2..n+1] its children in main-axis order;
\* g[1] is the leading gap, g[n+1] the trailing one.
JustifyHeap(n, dir, spec, minSize, g, specs) ==
    LET start(i) == SumTo(g, i) + (i - 1) * ChildExtent
        total == SumTo(g, n + 1) + n * ChildExtent
        box(a, b, idx) == IF dir = Row THEN VNode(Px(a), Px(0), Px(b), Px(ChildExtent), idx)
                          ELSE VNode(Px(0), Px(a), Px(ChildExtent), Px(b), idx)
        main == IF dir = Row THEN "widthSpec" ELSE "heightSpec"
        cross == IF dir = Row THEN "heightSpec" ELSE "widthSpec"
    IN  [k \in 1..(n + 1) |->
            IF k = 1
            THEN [box(0, total, 0)
                     EXCEPT !.direction = dir, ![main] = spec, ![cross] = Fixed,
                            !.children = [i \in 1..n |-> i + 1],
                            !.classList =
                                IF minSize
                                THEN <<<<<<Tok(IF dir = Row THEN "min-w" ELSE "min-h",
                                               Px(total))>>>>>>
                                ELSE <<>>]
            ELSE [box(start(k - 1), start(k - 1) + ChildExtent, k - 1)
                     EXCEPT ![main] = specs[k - 1], ![cross] = Fixed]]

InitJustify ==
    /\ \E n \in 1..MaxJustifyChildren, dir \in {Row, Column},
          spec \in {Fixed, Auto, Constrained}, minSize \in BOOLEAN :
         \E g \in [1..(n + 1) -> JustifyGaps], specs \in ChildSpecs(n) :
            /\ g[1] \in EdgeGaps /\ g[n + 1] \in EdgeGaps
            /\ minSize => spec = Auto
            /\ heap = JustifyHeap(n, dir, spec, minSize, g, specs)
            /\ ctxIndex = n + 1
    /\ root = 1
    /\ pc = "justify"
    /\ stack = <<>>
    /\ defaultConfig = [multiLineTextFixedWidth |-> FALSE]
    /\ runs = <<>>
    /\ out = [op |-> "none"]

\* postprocess.ts
MeasureFlexJustify ==
    /\ pc = "justify"
    /\ LET r == measureFlexJustify(heap, root, ctxIndex)
       IN  /\ heap' = r.heap
           /\ ctxIndex' = r.index
           /\ pc' = IF r.status = "ok" THEN "justified" ELSE "error"
    /\ out' = [op |-> "postprocess.measureFlexJustify", before |-> heap]
    /\ UNCHANGED <<root, stack, defaultConfig, runs>>

\* The answers the missing helpers may give; an answer that is never asked
\* for is left FALSE.
Oracles(h, parent) ==
    LET p == h[parent]
        js == justifySpecOf(p)
        n == Len(p.children)
        spec(i) == h[p.children[i]][js]
        asked(i, specs) == p[js] = Constrained /\ spec(i) \in specs
        answers(specs) == {f \in [1..n -> BOOLEAN] : \A i \in 1..n : f[i] => asked(i, specs)}
    IN  [clamp : answers({Auto}), stretch : answers({Auto, Unknown}),
         expand : answers({Auto})]

\* index.ts
IndexMeasureFlexJustify ==
    /\ pc = "justify"
    /\ \E o \in Oracles(heap, root) :
         LET r == index_measureFlexJustify(heap, root, o)
         IN  /\ heap' = r.heap
             /\ pc' = IF r.status = "ok" THEN "justified" ELSE "error"
    /\ out' = [op |-> "index.measureFlexJustify", before |-> heap]
    /\ UNCHANGED <<root, stack, ctxIndex, defaultConfig, runs>>

NextJustify == MeasureFlexJustify \/ IndexMeasureFlexJustify

SpecJustify == InitJustify /\ [][NextJustify]_vars


\* The gaps of the container as they were when the engine started.
BeforeGaps ==
    LET p == out.before[root]
        n == Len(p.children)
        lo(i) == IF p.direction = Row THEN out.before[p.children[i]].left
                 ELSE out.before[p.children[i]].top
        hi(i) == IF p.direction = Row THEN out.before[p.children[i]].right
                 ELSE out.before[p.children[i]].bottom
    IN  [i \in 1..(n + 1) |->
            (IF i <= n THEN lo(i) ELSE IF p.direction = Row THEN p.right ELSE p.bottom)
            - (IF i = 1 THEN (IF p.direction = Row THEN p.left ELSE p.top) ELSE hi(i - 1))]

\* The case of C8 on the container the engine started from: a Row of Auto
\* width, three or more children, all middle gaps the same within the
\* tolerance, and both edge gaps equal to the (first) middle gap.
C8_Case ==
    /\ pc = "justified"
    /\ out.before[root].direction = Row
    /\ out.before[root].widthSpec = Auto
    /\ Len(out.before[root].children) >= 3
    /\ \A i \in 2..(Len(BeforeGaps) - 1) : Abs(BeforeGaps[i] - BeforeGaps[2]) <= Px(TOLERANCE)
    /\ BeforeGaps[1] = BeforeGaps[2]
    /\ BeforeGaps[Len(BeforeGaps)] = BeforeGaps[2]

C8_Outcome ==
    /\ HasClass(heap[root].classList, Tok("space-x", BeforeGaps[2]))
    /\ Len(heap[root].children) = Len(out.before[root].children)

C9_SpacerForTwoChildren ==
    (/\ pc = "justified"
     /\ out.before[root].direction = Row
     /\ out.before[root].widthSpec = Constrained
     /\ Len(out.before[root].children) = 2
     /\ BeforeGaps[2] > BeforeGaps[1]
     /\ BeforeGaps[2] > BeforeGaps[3])
    => /\ Len(heap[root].children) = 3
       /\ heap[root].children[1] = out.before[root].children[1]
       /\ heap[root].children[3] = out.before[root].children[2]
       /\ heap[root].children[2] \notin 1..Len(out.before)
       /\ heap[heap[root].children[2]].widthSpec = Constrained
       /\ \A w \in Words(heap[root].classList) :
             w[1] \notin {Kw("justify-between"), Kw("justify-end"), Kw("justify-center")}

\* C1, on the justification engines: width = right - left and
\* height = bottom - top hold for every node, the synthesized spacer
\* included, when they held for every node before.
C1_BoundsConsistent ==
    pc = "justified" =>
        \A n \in 1..Len(heap) :
            /\ heap[n].width = heap[n].right - heap[n].left
            /\ heap[n].height = heap[n].bottom - heap[n].top


(***************************************************************************)
(* Pattern Detector and Flex Grouper (postprocess.ts).  A function that    *)
(* edits the tree returns the new heap with the next value of              *)
(* context.index and a status: "ok", "error" for a thrown exception (a     *)
(* failed assert, a property read on undefined) and "hang" for a loop that *)
(* does not end.                                                           *)
(***************************************************************************)
hasText(vnode) == vnode.text # "none"

isSimilarBoxX(a, b) ==
    \/ /\ hasText(a) /\ hasText(b)
       /\ numSame(a.top, b.top)
       /\ numSame(a.height, b.height)
    \/ /\ ~hasText(a) /\ ~hasText(b)
       /\ numSame(a.top, b.top)
       /\ numSame(a.width, b.width)
       /\ numSame(a.height, b.height)

isSimilarBoxY(a, b) ==
    \/ /\ hasText(a) /\ hasText(b)
       /\ numSame(a.left, b.left)
       /\ numSame(a.height, b.height)
    \/ /\ ~hasText(a) /\ ~hasText(b)
       /\ numSame(a.left, b.left)
       /\ numSame(a.width, b.width)
       /\ numSame(a.height, b.height)

isSimilarBoxWrap(a, b) ==
    \/ /\ hasText(a) /\ hasText(b)
       /\ numSame(a.height, b.height)
    \/ /\ ~hasText(a) /\ ~hasText(b)
       /\ numSame(a.width, b.width)
       /\ numSame(a.height, b.height)

RECURSIVE MinOf(_)
MinOf(s) == IF Len(s) = 1 THEN s[1] ELSE Min2(s[1], MinOf(Tail(s)))

\* getBounds of a non-empty list of nodes
getBounds(h, nodes) ==
    LET minLeft == MinOf([i \in 1..Len(nodes) |-> h[nodes[i]].left])
        maxRight == MaxOf([i \in 1..Len(nodes) |-> h[nodes[i]].right])
        minTop == MinOf([i \in 1..Len(nodes) |-> h[nodes[i]].top])
        maxBottom == MaxOf([i \in 1..Len(nodes) |-> h[nodes[i]].bottom])
    IN  [left |-> minLeft, top |-> minTop, right |-> maxRight, bottom |-> maxBottom,
         width |-> maxRight - minLeft, height |-> maxBottom - minTop]

\* A synthesized container: the object literal { classList: [], bounds, ... }
newBox(b, idx) ==
    [VNode(b.left, b.top, b.right, b.bottom, idx) EXCEPT !.width = b.width, !.height = b.height]

setBounds(vnode, b) ==
    [vnode EXCEPT !.left = b.left, !.top = b.top, !.right = b.right, !.bottom = b.bottom,
                  !.width = b.width, !.height = b.height]

boundsOf(vnode) ==
    [left |-> vnode.left, top |-> vnode.top, right |-> vnode.right, bottom |-> vnode.bottom,
     width |-> vnode.width, height |-> vnode.height]

\* No two boxes count as equal.
isEqualBox_never(a, b) == FALSE

isEqualBox(a, b) == numSame(a.width, b.width) /\ numSame(a.height, b.height)

\* _.union(a, b): the values of a, then those of b not yet present
RECURSIVE union(_, _)
union(a, b) ==
    IF b = <<>> THEN a
    ELSE union(IF \E i \in 1..Len(a) : a[i] = Head(b) THEN a ELSE Append(a, Head(b)), Tail(b))

\* _.findIndex from position `from`; 0 when nothing is found
findIndex(s, P(_), from) ==
    IF \E i \in from..Len(s) : P(s[i])
    THEN CHOOSE i \in from..Len(s) : P(s[i]) /\ \A j \in from..(i - 1) : ~P(s[j])
    ELSE 0

\* children.splice(at, count, ...items)
splice(s, at, count, items) == SubSeq(s, 1, at - 1) \o items \o SubSeq(s, at + count, Len(s))

fieldsSet(h, nodes, field, value) ==
    [n \in 1..Len(h) |-> IF n \in SeqToSet(nodes) THEN [h[n] EXCEPT ![field] = value] ELSE h[n]]

groupListYNodes(h, parent, ctx) ==
    LET nodes == h[parent].children
        similar(i) == isSimilarBoxY(h[nodes[i]], h[nodes[i - 1]])
        result(hh, c, st) == [heap |-> hh, index |-> c, status |-> st]
    IN  IF h[parent].direction # Column THEN result(h, ctx, "error")
        ELSE IF Len(nodes) < 2 \/ ~\E i \in 2..Len(nodes) : similar(i) THEN result(h, ctx, "ok")
        ELSE LET i == CHOOSE k \in 2..Len(nodes) : similar(k) /\ \A j \in 2..(k - 1) : ~similar(j)
                 baseRepeatStart == i - 1
                 repeatCount == 2
                 children == SubSeq(nodes, baseRepeatStart, baseRepeatStart + repeatCount - 1)
                 gaps == [k \in 1..(Len(children) - 1) |->
                             h[children[k + 1]].left - h[children[k]].right]
                 h1 == fieldsSet(fieldsSet(h, nodes, "role", "list-item"),
                                 nodes, "heightSpec", Fixed)
                 id == Len(h) + 1
                 vnode == [newBox(getBounds(h1, children), ctx)
                              EXCEPT !.children = children, !.role = "list-y",
                                     !.heightSpec = Auto]
             IN  \* while (i < nodes.length && isSimilarBoxY(nodes[i], nodes[i - 1]))
                 \*     repeatCount++;    -- i does not move inside the loop
                 IF i + 1 <= Len(nodes) /\ similar(i + 1) THEN result(h, ctx, "hang")
                 ELSE IF ~uniqWithIsOne(gaps) THEN result(h, ctx, "ok")
                 ELSE IF baseRepeatStart = 1 /\ repeatCount = Len(nodes)
                 THEN result([h1 EXCEPT ![parent].role = "list-y",
                                        ![parent].heightSpec = Auto], ctx, "ok")
                 ELSE result([Append(h1, vnode)
                                 EXCEPT ![parent].children =
                                            splice(nodes, baseRepeatStart, repeatCount, <<id>>)],
                             ctx + 1, "ok")


\* The comparator of buildFlexBox is negative: top to bottom, and left to
\* right among nodes whose tops are the same within the tolerance.
flexBoxBefore(a, b) ==
    IF numSame(a.top, b.top)
    THEN IF numSame(a.left, b.left) THEN FALSE ELSE a.left - b.left < 0
    ELSE a.top - b.top < 0

\* "a must come before b" under the order named by: the comparator of
\* buildFlexBox, or the key of _.sortBy.
before(by, a, b) ==
    IF by = "flexBox" THEN flexBoxBefore(a, b) ELSE a[by] < b[by]

\* Stable insertion of x into s, which is sorted already.
RECURSIVE insertSorted(_, _, _, _)
insertSorted(h, s, x, by) ==
    IF s = <<>> THEN <<x>>
    ELSE IF before(by, h[x], h[s[Len(s)]])
    THEN Append(insertSorted(h, SubSeq(s, 1, Len(s) - 1), x, by), s[Len(s)])
    ELSE Append(s, x)

RECURSIVE sortFrom(_, _, _, _, _)
sortFrom(h, s, i, acc, by) ==
    IF i > Len(s) THEN acc
    ELSE sortFrom(h, s, i + 1, insertSorted(h, acc, s[i], by), by)

sortChildren(h, s) == sortFrom(h, s, 1, <<>>, "flexBox")

\* _.sortBy(nodes, n => n.bounds.top) and _.sortBy(nodes, n => n.bounds.left)
sortByTop(h, s) == sortFrom(h, s, 1, <<>>, "top")
sortByLeft(h, s) == sortFrom(h, s, 1, <<>>, "left")

\* The body shared by mergeUnnessaryNodes and mergeUnnessaryFlexBox: the
\* child at position childIdx is folded into parent.
foldChild(h, parent, childIdx) ==
    LET child == h[h[parent].children[childIdx]]
    IN  [h EXCEPT ![parent].classList = union(@, child.classList),
                  ![parent].widthSpec = IF child.widthSpec # Unknown THEN child.widthSpec ELSE @,
                  ![parent].heightSpec = IF child.heightSpec # Unknown THEN child.heightSpec ELSE @,
                  ![parent].direction = child.direction,
                  ![parent].attachNodes = union(@, child.attachNodes),
                  ![parent].children = splice(@, childIdx, 1, child.children)]

RECURSIVE mergeUnnessaryNodes(_, _)
mergeUnnessaryNodes(h, parent) ==
    LET children == h[parent].children
        equal(c) == isEqualBox(h[parent], h[c])
        childIdx == findIndex(children, equal, 1)
    IN  IF children = <<>> \/ childIdx = 0 THEN h
        ELSE mergeUnnessaryNodes(foldChild(h, parent, childIdx), parent)

mergeUnnessaryFlexBox(h, parent) ==
    LET children == h[parent].children
        c == children[1]
        h1 == IF /\ h[c].heightSpec # Fixed
                 /\ h[c].widthSpec # Fixed
                 /\ (h[c].classList = <<>> \/ hasText(h[c]))
              THEN [h EXCEPT ![c] = setBounds(@, boundsOf(h[parent]))]
              ELSE h
    IN  IF Len(children) # 1 THEN h
        ELSE IF isEqualBox(h1[parent], h1[c]) THEN foldChild(h1, parent, 1)
        ELSE h1

setFlexDirection(h, parent, ctx) ==
    LET children == h[parent].children
    IN  IF children = <<>> THEN [heap |-> h, index |-> ctx, status |-> "ok"]
        ELSE IF Len(children) = 1
        THEN [heap |-> [h EXCEPT ![parent].direction = Row,
                                 ![parent].children = sortByLeft(h, children)],
              index |-> ctx, status |-> "ok"]
        ELSE groupListYNodes([h EXCEPT ![parent].direction = Column,
                                       ![parent].children = sortByTop(h, children)],
                             parent, ctx)

\* measureParentSizeSpec that makes a container flexible (Constrained) on its
\* main axis where the code makes it content-sized (Auto), and has no assert.
measureParentSizeSpec_flexible(h, parent) ==
    LET p == h[parent]
        children == p.children
        some(spec) == \E i \in 1..Len(children) : h[children[i]][spec] \in {Auto, Constrained}
        fill(v, d) == IF v = Unknown THEN d ELSE v
    IN  IF children = <<>>
        THEN [heap |-> [h EXCEPT ![parent].widthSpec = fill(@, Fixed),
                                 ![parent].heightSpec = fill(@, Fixed)],
              status |-> "ok"]
        ELSE IF p.direction = Row
        THEN [heap |-> [h EXCEPT ![parent].widthSpec = fill(@, Constrained),
                                 ![parent].heightSpec =
                                     fill(@, IF some("heightSpec") THEN Auto ELSE Fixed)],
              status |-> "ok"]
        ELSE IF p.direction = Column
        THEN [heap |-> [h EXCEPT ![parent].heightSpec = fill(@, Constrained),
                                 ![parent].widthSpec =
                                     fill(@, IF some("widthSpec") THEN Auto ELSE Fixed)],
              status |-> "ok"]
        ELSE [heap |-> h, status |-> "ok"]

\* measureParentSizeSpec without the assert on the children's specs.
measureParentSizeSpec_unchecked(h, parent) ==
    LET p == h[parent]
        children == p.children
        some(spec) == \E i \in 1..Len(children) : h[children[i]][spec] = Auto
        fill(v, d) == IF v = Unknown THEN d ELSE v
    IN  IF children = <<>>
        THEN [heap |-> [h EXCEPT ![parent].widthSpec = fill(@, Fixed),
                                 ![parent].heightSpec = fill(@, Fixed)],
              status |-> "ok"]
        ELSE IF p.direction = Row
        THEN [heap |-> [h EXCEPT ![parent].widthSpec = fill(@, Auto),
                                 ![parent].heightSpec =
                                     fill(@, IF some("heightSpec") THEN Auto ELSE Fixed)],
              status |-> "ok"]
        ELSE IF p.direction = Column
        THEN [heap |-> [h EXCEPT ![parent].heightSpec = fill(@, Auto),
                                 ![parent].widthSpec =
                                     fill(@, IF some("widthSpec") THEN Auto ELSE Fixed)],
              status |-> "ok"]
        ELSE [heap |-> h, status |-> "ok"]

measureParentSizeSpec(h, parent) ==
    LET p == h[parent]
        children == p.children
        some(spec) == \E i \in 1..Len(children) : h[children[i]][spec] = Auto
        fill(v, d) == IF v = Unknown THEN d ELSE v
    IN  IF children = <<>>
        THEN [heap |-> [h EXCEPT ![parent].widthSpec = fill(@, Fixed),
                                 ![parent].heightSpec = fill(@, Fixed)],
              status |-> "ok"]
        ELSE IF \E i \in 1..Len(children) :
                    \/ h[children[i]].widthSpec \notin {Fixed, Auto}
                    \/ h[children[i]].heightSpec \notin {Fixed, Auto}
        THEN [heap |-> h, status |-> "error"]
        ELSE IF p.direction = Row
        THEN [heap |-> [h EXCEPT ![parent].widthSpec = fill(@, Auto),
                                 ![parent].heightSpec =
                                     fill(@, IF some("heightSpec") THEN Auto ELSE Fixed)],
              status |-> "ok"]
        ELSE IF p.direction = Column
        THEN [heap |-> [h EXCEPT ![parent].heightSpec = fill(@, Auto),
                                 ![parent].widthSpec =
                                     fill(@, IF some("widthSpec") THEN Auto ELSE Fixed)],
              status |-> "ok"]
        ELSE [heap |-> h, status |-> "ok"]


\* groups.push / group.push of groupNodesByOverlapX for nodes[i..]
RECURSIVE groupNodesByOverlapXFrom(_, _, _, _)
groupNodesByOverlapXFrom(h, nodes, i, groups) ==
    IF i > Len(nodes) THEN groups
    ELSE LET node == nodes[i]
             hit(n) == \E j \in 1..Len(groups[n]) : isOverlappingX(h[node], h[groups[n][j]])
         IN  IF \E n \in 1..Len(groups) : hit(n)
             THEN LET n == CHOOSE k \in 1..Len(groups) : hit(k) /\ \A m \in 1..(k - 1) : ~hit(m)
                  IN  groupNodesByOverlapXFrom(h, nodes, i + 1,
                                               [groups EXCEPT ![n] = Append(@, node)])
             ELSE groupNodesByOverlapXFrom(h, nodes, i + 1, Append(groups, <<node>>))

groupNodesByOverlapX(h, nodes) == groupNodesByOverlapXFrom(h, nodes, 1, <<>>)

\* _.maxBy(nodes, node => node.bounds.height): the first node of maximal height
highestOf(h, nodes) ==
    LET top == MaxOf([i \in 1..Len(nodes) |-> h[nodes[i]].height])
    IN  nodes[CHOOSE i \in 1..Len(nodes) :
                  h[nodes[i]].height = top /\ \A j \in 1..(i - 1) : h[nodes[j]].height # top]

\* A result of a grouping function with the nodes front put before its nodes.
prepend(front, r) == [r EXCEPT !.nodes = front \o @]

\* groupNodes, with the argument lists of the calls it is nested in: a call
\* that meets its own argument again recurses for ever, which ends as a
\* RangeError ("error").
RECURSIVE groupNodes(_, _, _, _)
RECURSIVE groupNodesMap(_, _, _, _, _, _)

\* The column of a group once groupListYNodes (y) has run on it
groupNodesColumn(y, id, groups, gi, nodesx, seen) ==
    IF y.status # "ok"
    THEN [heap |-> y.heap, nodes |-> nodesx, index |-> y.index, status |-> y.status]
    ELSE groupNodesMap(y.heap, groups, gi + 1, y.index, Append(nodesx, id), seen)

\* vnode.children = groupNodes(group) (r); groupListYNodes(vnode);
groupNodesGrouped(r, id, groups, gi, nodesx, seen) ==
    IF r.status # "ok" THEN r
    ELSE groupNodesColumn(groupListYNodes([r.heap EXCEPT ![id].children = r.nodes],
                                          id, r.index),
                          id, groups, gi, nodesx, seen)

\* The column box of a group of several nodes, stored at position Len(h) + 1
groupNodesBox(h1, group, ctx, groups, gi, nodesx, seen) ==
    groupNodesGrouped(groupNodes(h1, sortByTop(h1, group), ctx, seen),
                      Len(h1), groups, gi, nodesx, seen)

\* groups.map(...) of groupNodes, from group gi on; nodesx collects the result.
groupNodesMap(h, groups, gi, ctx, nodesx, seen) ==
    IF gi > Len(groups) THEN [heap |-> h, nodes |-> nodesx, index |-> ctx, status |-> "ok"]
    ELSE IF Len(groups[gi]) > 1
    THEN groupNodesBox(Append(h, [newBox(getBounds(h, groups[gi]), ctx)
                                     EXCEPT !.direction = Column]),
                       groups[gi], ctx + 1, groups, gi, nodesx, seen)
    ELSE groupNodesMap(h, groups, gi + 1, ctx, Append(nodesx, groups[gi][1]), seen)

\* The row box of the nodes nodesx (m), stored at position Len(m.heap) + 1,
\* then the nodes left over
groupNodesRow(m, leftoverNodes) ==
    IF m.status # "ok" THEN m
    ELSE prepend(<<Len(m.heap) + 1>>,
                 groupNodes(Append(m.heap,
                                   [newBox(getBounds(m.heap, m.nodes), m.index)
                                       EXCEPT !.direction = Row,
                                              !.children = sortByLeft(m.heap, m.nodes)]),
                            leftoverNodes, m.index + 1, {}))

groupNodesPartition(h, nodes, ctx, seen, highestNode, intersectingNodes, leftoverNodes) ==
    IF Len(intersectingNodes) > 1
    THEN groupNodesRow(groupNodesMap(h, groupNodesByOverlapX(h, intersectingNodes), 1,
                                     ctx, <<>>, seen \cup {nodes}),
                       leftoverNodes)
    ELSE prepend(<<highestNode>>, groupNodes(h, leftoverNodes, ctx, {}))

groupNodesHighest(h, nodes, ctx, seen, highestNode) ==
    LET inside(n) == /\ h[n].top >= h[highestNode].top
                     /\ h[n].bottom <= h[highestNode].bottom
        outside(n) == ~inside(n)
    IN  groupNodesPartition(h, nodes, ctx, seen, highestNode,
                            SelectSeq(nodes, inside), SelectSeq(nodes, outside))

groupNodes(h, nodes, ctx, seen) ==
    IF nodes = <<>> THEN [heap |-> h, nodes |-> <<>>, index |-> ctx, status |-> "ok"]
    ELSE IF nodes \in seen THEN [heap |-> h, nodes |-> nodes, index |-> ctx, status |-> "error"]
    ELSE groupNodesHighest(h, nodes, ctx, seen, highestOf(h, nodes))


\* Elements are addressed from 0 in the loops of the Pattern Detector.
At(s, i) == s[i + 1]
Slice(s, from, to) == SubSeq(s, from + 1, Min2(to, Len(s)))

\* removeEles(nodes, eles)
removeEles(nodes, eles) ==
    LET keep(n) == n \notin SeqToSet(eles) IN SelectSeq(nodes, keep)

\* The while loop of findFlexWrap: how many nodes from cursor on repeat the
\* base group; -1 when the loop runs past the end of nodes and reads
\* textContent of undefined.
RECURSIVE wrapRepeatCount(_, _, _, _, _, _)
wrapRepeatCount(h, nodes, cursor, baseRepeatStart, repeatGroupCount, repeatCount) ==
    IF cursor >= Len(nodes) THEN -1
    ELSE IF isSimilarBoxWrap(h[At(nodes, cursor)],
                             h[At(nodes, baseRepeatStart + (repeatCount % repeatGroupCount))])
    THEN wrapRepeatCount(h, nodes, cursor + 1, baseRepeatStart, repeatGroupCount,
                         repeatCount + 1)
    ELSE repeatCount

RECURSIVE findFlexWrap(_, _, _, _, _, _)
findFlexWrap(h, nodes, cursor0, baseRepeatStart, repeatGroupCount, repeatNodes) ==
    LET repeatsBounds == getBounds(h, repeatNodes)
        belowBox == [left |-> repeatsBounds.left, right |-> repeatsBounds.right,
                     top |-> repeatsBounds.bottom, bottom |-> Infinity]
        below(n) == isContainedWithin(h[n], belowBox)
        cursor == findIndex(nodes, below, cursor0 + 1) - 1
        counted == wrapRepeatCount(h, nodes, cursor, baseRepeatStart, repeatGroupCount, 0)
        repeatCount == counted - (counted % repeatGroupCount)
    IN  IF cursor = -1 THEN [nodes |-> repeatNodes, status |-> "ok"]
        ELSE IF counted = -1 THEN [nodes |-> repeatNodes, status |-> "error"]
        ELSE IF counted = 0 \/ repeatCount = 0 THEN [nodes |-> repeatNodes, status |-> "ok"]
        ELSE findFlexWrap(h, nodes, cursor + counted, baseRepeatStart, repeatGroupCount,
                          repeatNodes \o Slice(nodes, cursor, cursor + repeatCount))

\* gaps between consecutive boxes: left of the next minus right of this one
gapsBetween(h, children) ==
    [k \in 1..(Len(children) - 1) |-> h[children[k + 1]].left - h[children[k]].right]

\* _.uniqWith(xs, numSame).length === 1, also for the empty list (length 0)
equalWithin(xs) == uniqWithIsOne(xs)

\* checkListXNodesSimilar.  _.zip(innerGaps) wraps every gap list in a list of
\* one element, so the first test is passed by any items.
checkListXNodesSimilar(h, children) ==
    LET rulers == [k \in 1..(Len(children) - 1) |->
                      h[children[k + 1]].left - h[children[k]].left]
        repeatedRuler == equalWithin(rulers)
        newWidth == MaxOf(<<Px(RoundDiv(4 * rulers[1], 5 * Unit))>>
                          \o [k \in 1..Len(children) |-> h[children[k]].width])
        widen(n) == [h[n] EXCEPT !.width = newWidth, !.right = h[n].left + newWidth]
    IN  IF ~repeatedRuler
        THEN [heap |-> h, ok |-> equalWithin(gapsBetween(h, children))]
        ELSE [heap |-> [n \in 1..Len(h) |->
                            IF n \in SeqToSet(children) THEN widen(n) ELSE h[n]],
              ok |-> TRUE]

\* Centre-line gaps of checkListXNodesGap, in quarters of a pixel.
centreGaps(h, children) ==
    [k \in 1..(Len(children) - 1) |->
        (2 * h[children[k + 1]].left + h[children[k + 1]].width)
        - (2 * h[children[k]].right + h[children[k]].width)]

centreGapsSame(gaps) ==
    Len(gaps) >= 1 /\ \A i \in 1..Len(gaps) : Abs(gaps[1] - gaps[i]) <= 2 * Px(TOLERANCE)

checkListXNodesGap(h, children) ==
    LET gaps == centreGaps(h, children)
        newWidth == Px(RoundDiv(gaps[1], 4 * Unit))
        respace(n) ==
            \* Math.round(newWidth - width) / 2, a whole number of half pixels
            LET widthDiff == RoundDiv(newWidth - h[n].width, Unit)
            IN  [h[n] EXCEPT !.width = newWidth,
                             !.left = @ - widthDiff,
                             !.right = @ + widthDiff]
    IN  IF Len(children) <= 2 \/ equalWithin(gapsBetween(h, children))
        THEN [heap |-> h, ok |-> TRUE]
        ELSE IF ~hasText(h[children[1]]) \/ ~centreGapsSame(gaps)
        THEN [heap |-> h, ok |-> FALSE]
        ELSE [heap |-> [n \in 1..Len(h) |->
                            IF n \in SeqToSet(children) THEN respace(n) ELSE h[n]],
              ok |-> TRUE]


\* The list-item containers of groupListXNodes for children[j..], taken
\* repeatGroupCount at a time; they are numbered from ctx on and stored from
\* position Len(h) + 1 on.
RECURSIVE repeatGroupsFrom(_, _, _, _, _)
repeatGroupsFrom(h, children, j, repeatGroupCount, ctx) ==
    IF j >= Len(children) THEN h
    ELSE LET group == Slice(children, j, j + repeatGroupCount)
             vnode == [newBox(getBounds(h, group), ctx)
                          EXCEPT !.children = group, !.role = "list-item", !.direction = Row]
         IN  repeatGroupsFrom(Append(h, vnode), children, j + repeatGroupCount,
                              repeatGroupCount, ctx + 1)

\* How many times the body of
\*     while (++i < nodes.length && isSimilarBoxX(nodes[++compareIndex], nodes[i]))
\* runs, i and compareIndex being the values before the loop.
RECURSIVE similarRun(_, _, _, _)
similarRun(h, nodes, i, compareIndex) ==
    IF i + 1 < Len(nodes) /\ isSimilarBoxX(h[At(nodes, compareIndex + 1)], h[At(nodes, i + 1)])
    THEN 1 + similarRun(h, nodes, i + 1, compareIndex + 1)
    ELSE 0

RECURSIVE groupListXNodes(_, _, _)
RECURSIVE groupListXLoop(_, _, _, _, _)

\* groupListXNodes from the new list node on: the list, stored at position
\* Len(h) + 1, takes the place of its items, and the nodes from
\* baseRepeatStart on are searched again.
groupListXRest(nodes1, baseRepeatStart, h3, ctx) ==
    prepend(Slice(nodes1, 0, baseRepeatStart) \o <<Len(h3)>>,
            groupListXNodes(h3, Slice(nodes1, baseRepeatStart, Len(nodes1)), ctx))

\* The list node: list-wrap when children.length > repeatCount, else list-x.
groupListXList(h2, nodes, ctx, baseRepeatStart, removed, children, isWrap) ==
    LET vnode == [newBox(getBounds(h2, children), ctx)
                     EXCEPT !.children = children, !.direction = Row,
                            !.role = IF isWrap THEN "list-wrap" ELSE "list-x",
                            !.heightSpec = IF isWrap THEN Auto ELSE @,
                            !.widthSpec = IF isWrap THEN @ ELSE Auto]
    IN  groupListXRest(removeEles(nodes, removed), baseRepeatStart,
                       Append(IF isWrap THEN fieldsSet(h2, children, "heightSpec", Fixed)
                              ELSE h2, vnode),
                       ctx + 1)

\* After checkListXNodesSimilar or checkListXNodesGap (checked): a candidate
\* that fails is given up and the loop goes on with the next i.
groupListXChecked(h, nodes, i, compareIndex, ctx, baseRepeatStart, repeatCount, removed, children, checked) ==
    IF ~checked.ok THEN groupListXLoop(h, nodes, i + 1, compareIndex, ctx)
    ELSE groupListXList(checked.heap, nodes, ctx, baseRepeatStart, removed, children,
                        Len(children) > repeatCount)

\* repeatGroupCount > 1: the items are containers of repeatGroupCount nodes.
\* The containers of a candidate that is given up are dropped from the heap;
\* the indices they took stay taken.
groupListXGroups(h, nodes, i, compareIndex, ctx, baseRepeatStart, repeatGroupCount, repeatCount, children, grouped) ==
    LET groupCount == Len(children) \div repeatGroupCount
        repeatGroups == [k \in 1..groupCount |-> Len(h) + k]
    IN  groupListXChecked(h, nodes, i, compareIndex, ctx + groupCount, baseRepeatStart,
                          repeatCount, children, repeatGroups,
                          IF Len(children) = repeatCount
                          THEN checkListXNodesSimilar(grouped, repeatGroups)
                          ELSE [heap |-> grouped, ok |-> TRUE])

\* repeatGroupCount = 1: the repeated nodes are the items.
groupListXItems(h, nodes, i, compareIndex, ctx, baseRepeatStart, repeatCount, children, gap) ==
    groupListXChecked(h, nodes, i, compareIndex, ctx, baseRepeatStart, repeatCount,
                      children, children,
                      [gap EXCEPT !.heap = fieldsSet(@, children, "role", "list-item")])

\* After findFlexWrap (wrap), which throws when it runs past the end of nodes.
groupListXWrapped(h, nodes, i, compareIndex, ctx, baseRepeatStart, repeatGroupCount, repeatCount, wrap) ==
    IF wrap.status # "ok"
    THEN [heap |-> h, nodes |-> nodes, index |-> ctx, status |-> wrap.status]
    ELSE IF repeatGroupCount > 1
    THEN groupListXGroups(h, nodes, i, compareIndex, ctx, baseRepeatStart, repeatGroupCount,
                          repeatCount, wrap.nodes,
                          repeatGroupsFrom(h, wrap.nodes, 0, repeatGroupCount, ctx))
    ELSE groupListXItems(h, nodes, i, compareIndex, ctx, baseRepeatStart, repeatCount,
                         wrap.nodes,
                         IF Len(wrap.nodes) = repeatCount
                         THEN checkListXNodesGap(h, wrap.nodes)
                         ELSE [heap |-> h, ok |-> TRUE])

\* The run of repeatCount nodes from baseRepeatStart on, i and compareIndex
\* being the values the while loop and the cut of an incomplete group left.
groupListXRepeat(h, nodes, i, compareIndex, ctx, baseRepeatStart, repeatGroupCount, repeatCount) ==
    IF repeatCount = 0 THEN groupListXLoop(h, nodes, i + 1, compareIndex, ctx)
    ELSE IF /\ repeatGroupCount = 1
            /\ hasText(h[At(nodes, baseRepeatStart)])
            /\ repeatCount = 2
    THEN groupListXLoop(h, nodes, i + 1, compareIndex, ctx)
    ELSE groupListXWrapped(h, nodes, i, compareIndex, ctx, baseRepeatStart,
                           repeatGroupCount, repeatCount,
                           findFlexWrap(h, nodes, i, baseRepeatStart, repeatGroupCount,
                                        Slice(nodes, baseRepeatStart,
                                              baseRepeatStart + repeatCount)))

\* nodes[i] repeats nodes[compareIndex]; e more nodes go on repeating.
groupListXRun(h, nodes, i, compareIndex, ctx, e) ==
    LET repeatGroupCount == i - compareIndex
        mod == (repeatGroupCount + 1 + e) % repeatGroupCount
    IN  groupListXRepeat(h, nodes, i + e + 1 - mod,
                         compareIndex + e + (IF i + e + 1 < Len(nodes) THEN 1 ELSE 0),
                         ctx, compareIndex, repeatGroupCount,
                         repeatGroupCount + 1 + e - mod)

\* The for loop of groupListXNodes at its test i < nodes.length.
groupListXLoop(h, nodes, i, compareIndex, ctx) ==
    IF i >= Len(nodes) THEN [heap |-> h, nodes |-> nodes, index |-> ctx, status |-> "ok"]
    ELSE IF ~numSame(h[At(nodes, i)].top, h[At(nodes, i - 1)].top)
    THEN groupListXLoop(h, nodes, i + 1, i, ctx)
    ELSE IF ~isSimilarBoxX(h[At(nodes, compareIndex)], h[At(nodes, i)])
    THEN groupListXLoop(h, nodes, i + 1, compareIndex, ctx)
    ELSE groupListXRun(h, nodes, i, compareIndex, ctx,
                       similarRun(h, nodes, i, compareIndex))

groupListXNodes(h, nodes, ctx) ==
    IF nodes = <<>> THEN [heap |-> h, nodes |-> <<>>, index |-> ctx, status |-> "ok"]
    ELSE groupListXLoop(h, nodes, 1, 0, ctx)


\* findMergeableListXNodes; "error" when getListXGap reads the bounds of a
\* second child that a list of one item does not have.
RECURSIVE findMergeableListXNodes(_, _, _)
findMergeableListXNodes(h, nodes, toMerge) ==
    LET first == h[h[toMerge].children[1]]
        overlaps(n) == isOverlappingX(h[n], first)
        nextOverlapNodeIdx == findIndex(nodes, overlaps, 1)
        nextOverlapNode == nodes[nextOverlapNodeIdx]
        getListXGap(vnode) == h[h[vnode].children[2]].left - h[h[vnode].children[1]].right
        rest == findMergeableListXNodes(h, SubSeq(nodes, nextOverlapNodeIdx + 1, Len(nodes)),
                                        nextOverlapNode)
    IN  IF nextOverlapNodeIdx = 0 THEN [nodes |-> <<>>, status |-> "ok"]
        ELSE IF ~(/\ h[nextOverlapNode].role = "list-x"
                  /\ Len(h[nextOverlapNode].children) = Len(h[toMerge].children)
                  /\ isOverlappingX(h[h[nextOverlapNode].children[1]], first))
        THEN [nodes |-> <<>>, status |-> "ok"]
        ELSE IF Len(h[toMerge].children) < 2 THEN [nodes |-> <<>>, status |-> "error"]
        ELSE IF getListXGap(nextOverlapNode) # getListXGap(toMerge)
        THEN [nodes |-> <<>>, status |-> "ok"]
        ELSE [rest EXCEPT !.nodes = <<nextOverlapNode>> \o @]

\* The list-item columns of tryMergeListXNodes for item positions k.. of the
\* lists to merge, stored from position Len(h) + 1 on.
RECURSIVE mergeColumnsFrom(_, _, _, _)
mergeColumnsFrom(h, toMergeLists, k, ctx) ==
    IF k > Len(h[toMergeLists[1]].children) THEN h
    ELSE LET group == [l \in 1..Len(toMergeLists) |-> h[toMergeLists[l]].children[k]]
             h1 == fieldsSet(h, group, "role", Unknown)
             vnode == [newBox(getBounds(h1, group), ctx)
                          EXCEPT !.children = group, !.role = "list-item",
                                 !.direction = Column]
         IN  mergeColumnsFrom(Append(h1, vnode), toMergeLists, k + 1, ctx + 1)

RECURSIVE tryMergeListXNodes(_, _, _)
tryMergeListXNodes(h, nodes, ctx) ==
    LET isListX(n) == h[n].role = "list-x"
        firstListXIdx == findIndex(nodes, isListX, 1)
        firstToMerge == nodes[firstListXIdx]
        found == findMergeableListXNodes(h, SubSeq(nodes, firstListXIdx + 1, Len(nodes)),
                                         firstToMerge)
        toMergeLists == <<firstToMerge>> \o found.nodes
        itemCount == Len(h[firstToMerge].children)
        h1 == mergeColumnsFrom(h, toMergeLists, 1, ctx)
        children == [k \in 1..itemCount |-> Len(h) + k]
        vnode == [newBox(getBounds(h1, children), ctx + itemCount)
                     EXCEPT !.children = children, !.role = "list-x", !.direction = Row,
                            !.widthSpec = Auto]
        h2 == Append(h1, vnode)
        nodes1 == removeEles(nodes, toMergeLists)
        \* nodes.slice(firstListXIdx + 1) is taken after the lists were removed
        rest == tryMergeListXNodes(h2, SubSeq(nodes1, firstListXIdx + 1, Len(nodes1)),
                                   ctx + itemCount + 1)
    IN  IF nodes = <<>> \/ firstListXIdx = 0
        THEN [heap |-> h, nodes |-> nodes, index |-> ctx, status |-> "ok"]
        ELSE IF found.status # "ok"
        THEN [heap |-> h, nodes |-> nodes, index |-> ctx, status |-> found.status]
        ELSE IF found.nodes = <<>>
        THEN [heap |-> h, nodes |-> nodes, index |-> ctx, status |-> "ok"]
        ELSE [rest EXCEPT !.nodes = SubSeq(nodes1, 1, firstListXIdx - 1) \o <<Len(h2)>> \o @]


(***************************************************************************)
(* Alignment along the cross axis and the layout of one container          *)
(* (postprocess.ts).                                                       *)
(***************************************************************************)
\* groupByWith(arr, iteratee, numSame) over the keys of arr: the groups in
\* the order of the Map, each the positions of its items; the key of a group
\* is the key of its first item.
RECURSIVE groupByWithFrom(_, _, _)
groupByWithFrom(keys, i, groups) ==
    IF i > Len(keys) THEN groups
    ELSE LET fits(g) == numSame(keys[groups[g][1]], keys[i])
         IN  IF \E g \in 1..Len(groups) : fits(g)
             THEN LET g == CHOOSE k \in 1..Len(groups) :
                               fits(k) /\ \A m \in 1..(k - 1) : ~fits(m)
                  IN  groupByWithFrom(keys, i + 1, [groups EXCEPT ![g] = Append(@, i)])
             ELSE groupByWithFrom(keys, i + 1, Append(groups, <<i>>))

groupByWith(keys) == groupByWithFrom(keys, 1, <<>>)

\* getCommonMarginOverHalf: <<count, margin>> of the first largest group when
\* it holds more than half of the children, <<0, 0>> otherwise.
getCommonMarginOverHalf(keys) ==
    LET grouped == groupByWith(keys)
        most == MaxOf([g \in 1..Len(grouped) |-> Len(grouped[g])])
        maxMagin == grouped[CHOOSE g \in 1..Len(grouped) :
                               Len(grouped[g]) = most
                               /\ \A m \in 1..(g - 1) : Len(grouped[m]) # most]
    IN  IF Len(maxMagin) * 2 > Len(keys) THEN <<Len(maxMagin), keys[maxMagin[1]]>>
        ELSE <<0, 0>>

\* The children loop of defaultAlignStretch from child i on; unreachable()
\* throws for a child whose size spec on the cross axis is neither Fixed nor
\* Auto.
RECURSIVE alignStretchFrom(_, _, _, _, _, _, _, _)
alignStretchFrom(h, children, i, alignSpec, s, e, cs, ce) ==
    IF i > Len(children) THEN [heap |-> h, status |-> "ok"]
    ELSE LET c == children[i] IN
         IF h[c][alignSpec] = Fixed
         THEN alignStretchFrom(
                  push(h, c, IF numSame(cs, ce) THEN Cls("self-center")
                             ELSE IF cs < ce
                             THEN R(<<Kw("self-start"), Tok("m" \o s, cs)>>)
                             ELSE R(<<Kw("self-end"), Tok("m" \o e, ce)>>)),
                  children, i + 1, alignSpec, s, e, cs, ce)
         ELSE IF h[c][alignSpec] = Auto
         THEN alignStretchFrom(
                  [push(h, c, R(<<Tok("m" \o s, cs), Tok("m" \o e, Min2(cs, ce))>>))
                      EXCEPT ![c][alignSpec] = Constrained],
                  children, i + 1, alignSpec, s, e, cs, ce)
         ELSE [heap |-> h, status |-> "error"]

defaultAlignStretch(h, parent, alignSpec, s, e, xy, cs, ce) ==
    alignStretchFrom(
        push(h, parent, IF numSame(cs, ce) THEN R(<<Tok("p" \o xy, ce)>>)
                        ELSE R(<<Tok("p" \o s, cs), Tok("p" \o e, ce)>>)),
        h[parent].children, 1, alignSpec, s, e, cs, ce)

selfAlign(h, parent, child, s, e, margin) ==
    LET has(name) == includes(h[parent].classList, Cls(name))
        h1(name) == IF has("items-" \o name) THEN h ELSE push(h, child, Cls("self-" \o name))
    IN  IF numSame(margin.marginDiff, 0) THEN h1("center")
        ELSE IF margin.marginDiff < 0
        THEN push(h1("start"), child, R(<<Tok("m" \o s, margin.marginStart)>>))
        ELSE push(h1("end"), child, R(<<Tok("m" \o e, margin.marginEnd)>>))

\* The children loops of the items-center, items-start and items-end
\* branches: a child that sits on the common line is left alone.
RECURSIVE selfAlignFrom(_, _, _, _, _, _, _)
selfAlignFrom(h, parent, i, s, e, margins, items) ==
    IF i > Len(h[parent].children) THEN h
    ELSE LET margin == margins[i]
             aligned == CASE items = "center" -> Abs(margin.marginDiff) <= 2 * Px(TOLERANCE)
                          [] items = "start" -> numSame(margin.marginStart, 0)
                          [] items = "end" -> numSame(margin.marginEnd, 0)
         IN  selfAlignFrom(IF aligned THEN h
                           ELSE selfAlign(h, parent, h[parent].children[i], s, e, margin),
                           parent, i + 1, s, e, margins, items)


\* Side and class-letter names of the cross axis of a container.
sfOf(parent) == IF parent.direction = Row THEN "top" ELSE "left"
efOf(parent) == IF parent.direction = Row THEN "bottom" ELSE "right"
sOf(parent) == IF parent.direction = Row THEN "t" ELSE "l"
eOf(parent) == IF parent.direction = Row THEN "b" ELSE "r"
alignSpecOf(parent) == IF parent.direction = Row THEN "heightSpec" ELSE "widthSpec"

marginsOf(h, parent) ==
    LET p == h[parent]
        sf == sfOf(p)
        ef == efOf(p)
    IN  [i \in 1..Len(p.children) |->
            LET n == h[p.children[i]]
            IN  [marginStart |-> n[sf] - p[sf],
                 marginEnd |-> p[ef] - n[ef],
                 marginDiff |-> n[sf] - p[sf] - (p[ef] - n[ef])]]

\* margins.forEach(margin => { margin.marginStart += ds; ... })
shifted(margins, ds, de, dd) ==
    [i \in 1..Len(margins) |->
        [marginStart |-> margins[i].marginStart + ds,
         marginEnd |-> margins[i].marginEnd + de,
         marginDiff |-> margins[i].marginDiff + dd]]

commonMargin(margins, key) ==
    getCommonMarginOverHalf([i \in 1..Len(margins) |-> margins[i][key]])

\* The items-center branch of measureFlexAlign
alignCenter(h, parent, margins, commonMarginDiff) ==
    LET h1 == push(h, parent, Cls("items-center"))
        near == Abs(commonMarginDiff) <= 2 * Px(TOLERANCE)
    IN  selfAlignFrom(
            IF near THEN h1
            ELSE IF commonMarginDiff > 0
            THEN push(h1, parent, <<<<Tok("p" \o sOf(h[parent]), commonMarginDiff)>>>>)
            ELSE push(h1, parent, <<<<Tok("p" \o eOf(h[parent]), -commonMarginDiff)>>>>),
            parent, 1, sOf(h[parent]), eOf(h[parent]),
            IF near THEN margins
            ELSE IF commonMarginDiff > 0
            THEN shifted(margins, -commonMarginDiff, 0, -commonMarginDiff)
            ELSE shifted(margins, 0, commonMarginDiff, -commonMarginDiff),
            "center")

\* The items-start branch of measureFlexAlign
alignStart(h, parent, margins, commonMarginStart) ==
    LET h1 == push(h, parent, Cls("items-start"))
        near == numSame(commonMarginStart, 0)
    IN  selfAlignFrom(
            IF near THEN h1
            ELSE push(h1, parent, <<<<Tok("p" \o sOf(h[parent]), commonMarginStart)>>>>),
            parent, 1, sOf(h[parent]), eOf(h[parent]),
            IF near THEN margins
            ELSE shifted(margins, -commonMarginStart, 0, -commonMarginStart),
            "start")

\* The items-end branch of measureFlexAlign
alignEnd(h, parent, margins, commonMarginEnd) ==
    LET h1 == push(h, parent, Cls("items-end"))
        near == numSame(commonMarginEnd, 0)
    IN  selfAlignFrom(
            IF near THEN h1
            ELSE push(h1, parent, <<<<Tok("p" \o eOf(h[parent]), commonMarginEnd)>>>>),
            parent, 1, sOf(h[parent]), eOf(h[parent]),
            IF near THEN margins
            ELSE shifted(margins, 0, -commonMarginEnd, commonMarginEnd),
            "end")

\* measureFlexAlign with the start-aligned branch tried before the centered one.
alignByCommon_startFirst(h, parent, margins, start, end, diff) ==
    LET p == h[parent]
        maxCommonMarginCount == MaxOf(<<start[1], end[1], diff[1]>>)
        branch == IF p[alignSpecOf(p)] = Constrained \/ maxCommonMarginCount = 0
                  THEN "stretch"
                  ELSE IF maxCommonMarginCount = start[1] THEN "start"
                  ELSE IF maxCommonMarginCount = diff[1] THEN "center"
                  ELSE IF maxCommonMarginCount = end[1] THEN "end"
                  ELSE "stretch"
    IN  CASE branch = "stretch" ->
                 defaultAlignStretch(h, parent, alignSpecOf(p), sOf(p), eOf(p), (IF p.direction = Row THEN "y" ELSE "x"),
                                     start[2], end[2])
          [] branch = "center" ->
                 [heap |-> alignCenter(h, parent, margins, diff[2]), status |-> "ok"]
          [] branch = "start" ->
                 [heap |-> alignStart(h, parent, margins, start[2]), status |-> "ok"]
          [] branch = "end" ->
                 [heap |-> alignEnd(h, parent, margins, end[2]), status |-> "ok"]

\* measureFlexAlign once the common margins are known; start, end and diff
\* are the <<count, margin>> pairs of getCommonMarginOverHalf.
alignByCommon(h, parent, margins, start, end, diff) ==
    LET p == h[parent]
        maxCommonMarginCount == MaxOf(<<start[1], end[1], diff[1]>>)
        branch == IF p[alignSpecOf(p)] = Constrained \/ maxCommonMarginCount = 0
                  THEN "stretch"
                  ELSE IF maxCommonMarginCount = diff[1] THEN "center"
                  ELSE IF maxCommonMarginCount = start[1] THEN "start"
                  ELSE IF maxCommonMarginCount = end[1] THEN "end"
                  ELSE "stretch"
    IN  CASE branch = "stretch" ->
                 defaultAlignStretch(h, parent, alignSpecOf(p), sOf(p), eOf(p), (IF p.direction = Row THEN "y" ELSE "x"),
                                     start[2], end[2])
          [] branch = "center" ->
                 [heap |-> alignCenter(h, parent, margins, diff[2]), status |-> "ok"]
          [] branch = "start" ->
                 [heap |-> alignStart(h, parent, margins, start[2]), status |-> "ok"]
          [] branch = "end" ->
                 [heap |-> alignEnd(h, parent, margins, end[2]), status |-> "ok"]

alignWithMargins(h, parent, margins) ==
    alignByCommon(h, parent, margins, commonMargin(margins, "marginStart"),
                  commonMargin(margins, "marginEnd"), commonMargin(margins, "marginDiff"))

measureFlexAlign(h, parent) == alignWithMargins(h, parent, marginsOf(h, parent))

measureChildSizeSpec(h, parent) ==
    LET p == h[parent]
        constrain(c) ==
            [c EXCEPT !.heightSpec = IF p.direction = Row /\ p.heightSpec = Constrained
                                        /\ @ = Auto
                                     THEN Constrained ELSE @,
                      !.widthSpec = IF p.direction = Column /\ p.widthSpec = Constrained
                                       /\ @ = Auto
                                    THEN Constrained ELSE @]
    IN  [n \in 1..Len(h) |-> IF n \in SeqToSet(p.children) THEN constrain(h[n]) ELSE h[n]]

measureFlexListLayout(h, parent) ==
    LET firstChild == h[h[parent].children[1]]
        secondChild == h[h[parent].children[2]]
    IN  IF Len(h[parent].children) < 2 THEN [heap |-> h, status |-> "error"]
        ELSE IF h[parent].role = "list-x"
        THEN [heap |-> push(h, parent,
                            R(<<Tok("space-x", secondChild.left - firstChild.right)>>)),
              status |-> "ok"]
        ELSE [heap |-> push(h, parent,
                            R(<<Tok("space-y", secondChild.top - firstChild.bottom)>>)),
              status |-> "ok"]


\* removeEle(arr, ele): arr without its first element equal to ele
removeEle(arr, ele) ==
    LET is(x) == x = ele
        at == findIndex(arr, is, 1)
    IN  IF at = 0 THEN arr ELSE splice(arr, at, 1, <<>>)

\* c.startsWith(name + '-') for an entry of a classList
startsWith(entry, name) ==
    entry # <<>> /\ Len(entry[1][1]) = 2 /\ entry[1][1][1] = name

\* `${prefix}-${+v - gap}` where [p, v] = cls.split('-'): v is a number only
\* when the "-" after the prefix is the only one, and +v is NaN otherwise.
marginMinus(cls, prefix, gap) ==
    IF Len(cls) = 1 /\ Len(cls[1]) = 1 /\ cls[1][1][2] >= 0
    THEN Tok(prefix, cls[1][1][2] - gap)
    ELSE Kw(prefix \o "-NaN")

\* The merge of one margin of measureFlexWrapLayout: the class found (or the
\* default `${one}-0`) yields the class pushed; the class removed is toRemove.
mergeMargin(classList, one, both, other, gap, toRemove) ==
    LET found(c) == startsWith(c, one) \/ startsWith(c, both)
        at == findIndex(classList, found, 1)
        cls == IF at = 0 THEN <<<<Tok(one, 0)>>>> ELSE classList[at]
        removed == removeEle(classList, IF toRemove = <<>> THEN cls ELSE toRemove)
    IN  [cls |-> cls,
         classList |->
             IF startsWith(cls, one)
             THEN Append(removed, R(<<marginMinus(cls, one, gap)>>))
             ELSE Append(removed, R(<<marginMinus(cls, one, gap),
                                      IF Len(cls) = 1 /\ Len(cls[1]) = 1
                                      THEN Tok(other, cls[1][1][2])
                                      ELSE Kw(other \o "-NaN")>>))]

measureFlexWrapLayout(h, parent) ==
    LET h1 == push(h, parent, Cls("flex-wrap"))
        children == h[parent].children
        firstChild == h[children[1]]
        secondChild == h[children[2]]
        xGap == secondChild.left - firstChild.right
        wrapped(c) == ~numSame(h[c].top, firstChild.top)
        wrapIdx == findIndex(children, wrapped, 2)
        firstWrapChild == h[children[wrapIdx]]
        yGap == firstWrapChild.top - firstChild.bottom
        h2 == [n \in 1..Len(h1) |->
                  IF n \in SeqToSet(children)
                  THEN [h1[n] EXCEPT !.classList =
                                        Append(@, R(<<Tok("ml", xGap), Tok("mt", yGap)>>))]
                  ELSE h1[n]]
        ml == mergeMargin(h2[parent].classList, "ml", "mx", "mr", xGap, <<>>)
        \* the second removeEle is given mlCls again
        mt == mergeMargin(ml.classList, "mt", "my", "mb", yGap, ml.cls)
    IN  IF Len(children) < 2 \/ wrapIdx = 0 THEN [heap |-> h1, status |-> "error"]
        ELSE IF ~numSame(firstWrapChild.left, firstChild.left)
        THEN [heap |-> h1, status |-> "error"]
        ELSE [heap |-> [h2 EXCEPT ![parent].classList = mt.classList], status |-> "ok"]


pushIf(cond, h, n, entry) == IF cond THEN push(h, n, entry) ELSE h

\* measureFlexLayout, the size classes: w- and h- of a Fixed size
sizeClasses(h, parent) ==
    pushIf(h[parent].heightSpec = Fixed,
           pushIf(h[parent].widthSpec = Fixed, h, parent, R(<<Tok("w", h[parent].width)>>)),
           parent, R(<<Tok("h", h[parent].height)>>))

\* measureFlexLayout, 'flex' and 'flex-col'
flexClasses(h, parent) ==
    pushIf(h[parent].direction = Column, push(h, parent, Cls("flex")), parent, Cls("flex-col"))

withIndex(r, ctx) == [heap |-> r.heap, index |-> ctx, status |-> r.status]

\* measureFlexAlign(parent); measureFlexJustify(parent);
alignThenJustify(align, parent, ctx) ==
    IF align.status # "ok" THEN withIndex(align, ctx)
    ELSE measureFlexJustify(align.heap, parent, ctx)

\* measureFlexLayout, the layout chosen by the role of the container
layoutByRole(h, parent, ctx) ==
    IF h[parent].role = "list-wrap" THEN withIndex(measureFlexWrapLayout(h, parent), ctx)
    ELSE IF h[parent].role \in {"list-x", "list-y"}
    THEN withIndex(measureFlexListLayout(h, parent), ctx)
    ELSE alignThenJustify(measureFlexAlign(h, parent), parent, ctx)

thenChildSizeSpec(laid, parent) ==
    IF laid.status # "ok" THEN laid
    ELSE [laid EXCEPT !.heap = measureChildSizeSpec(@, parent)]

measureFlexLayout(h, parent, ctx) ==
    IF h[parent].direction = Unknown \/ h[parent].children = <<>>
    THEN [heap |-> sizeClasses(h, parent), index |-> ctx, status |-> "ok"]
    ELSE thenChildSizeSpec(
             layoutByRole(flexClasses(sizeClasses(h, parent), parent), parent, ctx), parent)


(***************************************************************************)
(* Specification SpecTree: postprocess on one page.  stack holds the calls *)
(* of buildTree and measureTree that are pending, the running one first;   *)
(* a frame names the node and the statement the call is at.                *)
(***************************************************************************)
Frame(n, at) == [node |-> n, at |-> at]

Frames(nodes, at) == [i \in 1..Len(nodes) |-> Frame(nodes[i], at)]

Now(at) == pc = "running" /\ stack # <<>> /\ stack[1].at = at

\* The running call goes on with the frames next (none when it returns), or
\* the conversion ends with the exception or the endless loop named by status.
Continue(status, next) ==
    LET rest == next \o Tail(stack)
    IN  IF status # "ok" THEN pc' = status /\ stack' = stack
        ELSE IF rest = <<>> THEN pc' = "done" /\ stack' = rest
        ELSE pc' = "running" /\ stack' = rest

\* buildTree: if (!vnode.direction) { ... }
BuildTreeStep ==
    /\ Now("buildTree")
    /\ LET n == stack[1].node
       IN  Continue("ok", <<Frame(n, IF heap[n].direction = Unknown
                                     THEN "mergeUnnessaryNodes" ELSE "children")>>)
    /\ UNCHANGED <<heap, root, ctxIndex, defaultConfig, runs, out>>

MergeUnnessaryNodesStep ==
    /\ Now("mergeUnnessaryNodes")
    /\ LET n == stack[1].node
       IN  /\ heap' = mergeUnnessaryNodes(heap, n)
           /\ Continue("ok", <<Frame(n, "buildMissingNodes")>>)
    /\ UNCHANGED <<root, ctxIndex, defaultConfig, runs, out>>

BuildMissingNodesStep ==
    /\ Now("buildMissingNodes")
    /\ LET n == stack[1].node
       IN  /\ heap' = buildMissingNodes(heap, n)
           /\ Continue("ok", <<Frame(n, "groupListXNodes")>>)
    /\ UNCHANGED <<root, ctxIndex, defaultConfig, runs, out>>


\* parent.children = r.nodes, r being the result of a grouping function
StoreChildren(r, n, next) ==
    /\ heap' = [r.heap EXCEPT ![n].children = r.nodes]
    /\ ctxIndex' = r.index
    /\ Continue(r.status, <<Frame(n, next)>>)

\* r is the result of a function that edits the tree in place
Store(r, next) ==
    /\ heap' = r.heap
    /\ ctxIndex' = r.index
    /\ Continue(r.status, next)

\* buildFlexBox up to groupListXNodes: the assert, the sort, the row lists
GroupListXNodesStep ==
    /\ Now("groupListXNodes")
    /\ LET n == stack[1].node
       IN  IF heap[n].children # <<>> /\ heap[n].direction # Unknown
           THEN /\ Continue("error", <<>>)
                /\ UNCHANGED <<heap, ctxIndex>>
           ELSE StoreChildren(groupListXNodes(heap, sortChildren(heap, heap[n].children),
                                              ctxIndex),
                              n, "tryMergeListXNodes")
    /\ UNCHANGED <<root, defaultConfig, runs, out>>

TryMergeListXNodesStep ==
    /\ Now("tryMergeListXNodes")
    /\ StoreChildren(tryMergeListXNodes(heap, heap[stack[1].node].children, ctxIndex),
                     stack[1].node, "groupNodes")
    /\ UNCHANGED <<root, defaultConfig, runs, out>>

GroupNodesStep ==
    /\ Now("groupNodes")
    /\ StoreChildren(groupNodes(heap, heap[stack[1].node].children, ctxIndex, {}),
                     stack[1].node, "mergeUnnessaryFlexBox")
    /\ UNCHANGED <<root, defaultConfig, runs, out>>

MergeUnnessaryFlexBoxStep ==
    /\ Now("mergeUnnessaryFlexBox")
    /\ LET n == stack[1].node
       IN  /\ heap' = mergeUnnessaryFlexBox(heap, n)
           /\ Continue("ok", <<Frame(n, "setFlexDirection")>>)
    /\ UNCHANGED <<root, ctxIndex, defaultConfig, runs, out>>

SetFlexDirectionStep ==
    /\ Now("setFlexDirection")
    /\ Store(setFlexDirection(heap, stack[1].node, ctxIndex),
             <<Frame(stack[1].node, "children")>>)
    /\ UNCHANGED <<root, defaultConfig, runs, out>>

\* _.each(vnode.children, buildTree); _.each(vnode.attachNodes, buildTree);
BuildChildrenStep ==
    /\ Now("children")
    /\ LET n == stack[1].node
       IN  Continue("ok", Frames(heap[n].children \o heap[n].attachNodes, "buildTree")
                          \o <<Frame(n, "measureParentSizeSpec")>>)
    /\ UNCHANGED <<heap, root, ctxIndex, defaultConfig, runs, out>>

MeasureParentSizeSpecStep ==
    /\ Now("measureParentSizeSpec")
    /\ Store(withIndex(measureParentSizeSpec(heap, stack[1].node), ctxIndex), <<>>)
    /\ UNCHANGED <<root, defaultConfig, runs, out>>

MeasureFlexLayoutStep ==
    /\ Now("measureFlexLayout")
    /\ Store(measureFlexLayout(heap, stack[1].node, ctxIndex),
             <<Frame(stack[1].node, "measureAttachPosition")>>)
    /\ UNCHANGED <<root, defaultConfig, runs, out>>

MeasureAttachPositionStep ==
    /\ Now("measureAttachPosition")
    /\ LET n == stack[1].node
       IN  /\ heap' = measureAttachPosition(heap, n)
           /\ Continue("ok", <<Frame(n, "measureChildren")>>)
    /\ UNCHANGED <<root, ctxIndex, defaultConfig, runs, out>>

\* _.each(vnode.children, measureTree); _.each(vnode.attachNodes, measureTree);
MeasureChildrenStep ==
    /\ Now("measureChildren")
    /\ LET n == stack[1].node
       IN  Continue("ok", Frames(heap[n].children \o heap[n].attachNodes,
                                 "measureFlexLayout"))
    /\ UNCHANGED <<heap, root, ctxIndex, defaultConfig, runs, out>>

PostprocessSteps ==
    \/ BuildTreeStep
    \/ MergeUnnessaryNodesStep
    \/ BuildMissingNodesStep
    \/ GroupListXNodesStep
    \/ TryMergeListXNodesStep
    \/ GroupNodesStep
    \/ MergeUnnessaryFlexBoxStep
    \/ SetFlexDirectionStep
    \/ BuildChildrenStep
    \/ MeasureParentSizeSpecStep
    \/ MeasureFlexLayoutStep
    \/ MeasureAttachPositionStep
    \/ MeasureChildrenStep


\* The text part of stylishText: the classes of the text run, then the size
\* specs of a multi-line or a single-line text.  spare: the box is wider than
\* its characters need.
stylishText(vnode, text, spare, config) ==
    IF text = "multi"
    THEN [vnode EXCEPT !.text = text,
                       !.classList = <<Cls("text-14/20")>>,
                       !.widthSpec = IF config.multiLineTextFixedWidth THEN Fixed ELSE Auto,
                       !.heightSpec = Auto]
    ELSE [vnode EXCEPT !.text = text,
                       !.classList = <<Cls("text-14/20"), Cls("whitespace-nowrap")>>,
                       !.widthSpec = IF spare THEN Fixed ELSE Auto,
                       !.heightSpec = Fixed]

\* A page is the list of the layers of an artboard of PageSize x PageSize
\* pixels.  preprocess turns it into the artboard node and one node per
\* layer, stamped from context.index on in document order.
PageSize == 40

preprocess(page, ctx, config) ==
    [n \in 1..(Len(page) + 1) |->
        IF n = 1
        THEN [VNode(Px(0), Px(0), Px(PageSize), Px(PageSize), ctx)
                 EXCEPT !.children = [i \in 1..Len(page) |-> i + 1]]
        ELSE LET layer == page[n - 1]
                 box == layer.box
                 vnode == VNode(Px(box[1]), Px(box[2]), Px(box[3]), Px(box[4]), ctx + n - 1)
             IN  IF layer.text = "none" THEN vnode
                 ELSE stylishText(vnode, layer.text, layer.spare, config)]

Layer(box, text, spare) == [box |-> box, text |-> text, spare |-> spare]

MaxTreeChildren == 3

TreeLayers ==
    {Layer(<<0, 0, 10, 10>>, "none", FALSE),
     Layer(<<30, 0, 35, 8>>, "none", FALSE),
     Layer(<<15, 0, 25, 10>>, "none", FALSE),
     Layer(<<30, 0, 40, 10>>, "none", FALSE),
     Layer(<<0, 2, 10, 10>>, "none", FALSE),
     Layer(<<0, 30, 5, 38>>, "none", FALSE),
     Layer(<<0, 20, 10, 30>>, "multi", FALSE),
     Layer(<<5, 5, 15, 15>>, "none", FALSE),
     Layer(<<20, 0, 30, 10>>, "single", TRUE)}

\* Pages of up to MaxTreeChildren different layers, in any document order.
Pages(layers, max) ==
    UNION {{page \in [1..k -> layers] : \A i, j \in 1..k : i # j => page[i] # page[j]} :
           k \in 1..max}

InitTree ==
    /\ \E page \in Pages(TreeLayers, MaxTreeChildren) :
         /\ heap = preprocess(page, 0, [multiLineTextFixedWidth |-> FALSE])
         /\ ctxIndex = Len(page) + 1
    /\ root = 1
    /\ pc = "running"
    /\ stack = <<Frame(1, "buildTree"), Frame(1, "measureFlexLayout")>>
    /\ defaultConfig = [multiLineTextFixedWidth |-> FALSE]
    /\ runs = <<>>
    /\ out = [op |-> "none"]

NextTree == PostprocessSteps

SpecTree == InitTree /\ [][NextTree]_vars


\* C5: during postprocess a step gives a node a direction only while the
\* node has at least one child, and never replaces Row or Column by another
\* value.
C5_DirectionSetOnce ==
    [][/\ \A n \in 1..Len(heap) :
            /\ heap[n].direction # Unknown => heap'[n].direction = heap[n].direction
            /\ heap'[n].direction # heap[n].direction => heap'[n].children # <<>>
       /\ \A n \in (Len(heap) + 1)..Len(heap') :
            heap'[n].direction # Unknown => heap'[n].children # <<>>]_vars


\* The nodes of the tree below root, root included
TreeNodes == Descendants(heap, root) \cup {root}

\* C4: when postprocess has completed, every node of the output tree has a
\* widthSpec and a heightSpec among Fixed, Auto and Constrained.
C4_SpecsResolved ==
    pc = "done" =>
        \A n \in TreeNodes :
            /\ heap[n].widthSpec \in {Fixed, Auto, Constrained}
            /\ heap[n].heightSpec \in {Fixed, Auto, Constrained}


(***************************************************************************)
(* Specification SpecRun: conversions that follow one another in one       *)
(* process.  defaultConfig and context.index are module-level objects and  *)
(* outlive a call of iDocJson2Html.                                        *)
(***************************************************************************)
MaxRuns == 3

\* The config argument: left out (given is FALSE), or an object that sets
\* allocSpaceForAuto.multiLineTextFixedWidth.
NoConfig == [given |-> FALSE, multiLineTextFixedWidth |-> FALSE]
Configs == {NoConfig} \cup {[given |-> TRUE, multiLineTextFixedWidth |-> b] : b \in BOOLEAN}

\* _.merge(defaultConfig, config) writes the fields of config into
\* defaultConfig itself.
merge(object, source) ==
    IF source.given THEN [multiLineTextFixedWidth |-> source.multiLineTextFixedWidth]
    ELSE object

RunPages ==
    {<<Layer(<<0, 20, 10, 30>>, "multi", FALSE)>>,
     <<Layer(<<0, 2, 10, 10>>, "none", FALSE), Layer(<<0, 20, 10, 30>>, "multi", FALSE)>>}

\* What a conversion hands to the serializer: the tree without the creation
\* stamps, or the exception.
Output(h, status) ==
    IF status # "done" THEN <<status>>
    ELSE [n \in 1..Len(h) |-> [h[n] EXCEPT !.index = 0]]

InitRun ==
    /\ heap = <<>>
    /\ root = 1
    /\ pc = "idle"
    /\ stack = <<>>
    /\ ctxIndex = 0
    /\ defaultConfig \in [multiLineTextFixedWidth : BOOLEAN]
    /\ runs = <<>>
    /\ out = [op |-> "none"]

\* iDocJson2Html up to the call of postprocess
IDocJson2Html ==
    /\ pc = "idle"
    /\ Len(runs) < MaxRuns
    /\ \E page \in RunPages, config \in Configs :
         /\ defaultConfig' = merge(defaultConfig, config)
         /\ heap' = preprocess(page, ctxIndex, defaultConfig')
         /\ ctxIndex' = ctxIndex + Len(page) + 1
         /\ out' = [op |-> "iDocJson2Html", page |-> page, config |-> config]
    /\ stack' = <<Frame(1, "buildTree"), Frame(1, "measureFlexLayout")>>
    /\ pc' = "running"
    /\ UNCHANGED <<root, runs>>

\* iDocJson2Html after postprocess: the tree goes to the serializer, or the
\* exception to the caller.
ReturnHtml ==
    /\ pc \in {"done", "error"}
    /\ runs' = Append(runs, [page |-> out.page, config |-> out.config,
                             output |-> Output(heap, pc)])
    /\ pc' = "idle"
    /\ UNCHANGED <<heap, root, stack, ctxIndex, defaultConfig, out>>

NextRun == IDocJson2Html \/ PostprocessSteps \/ ReturnHtml

SpecRun == InitRun /\ [][NextRun]_vars

\* C7: two finished conversions of the same page with the same config
\* argument have produced the same output, whatever ran before them.
C7_SameInputSameOutput ==
    \A i, j \in 1..Len(runs) :
        (runs[i].page = runs[j].page /\ runs[i].config = runs[j].config)
            => runs[i].output = runs[j].output


(***************************************************************************)
(* Specification SpecFold: postprocess on an artboard whose only layer is  *)
(* a group, which holds the layers of the page (Scenario D when the group  *)
(* has the bounds of the artboard).                                        *)
(***************************************************************************)
MaxGrandchildren == 3

FoldLayers ==
    {Layer(<<0, 0, 10, 10>>, "none", FALSE),
     Layer(<<30, 0, 35, 8>>, "none", FALSE),
     Layer(<<0, 30, 5, 38>>, "none", FALSE),
     Layer(<<0, 20, 10, 30>>, "multi", FALSE),
     Layer(<<5, 5, 15, 15>>, "none", FALSE),
     Layer(<<20, 0, 30, 10>>, "single", TRUE)}

\* The group: as large as the artboard, or four pixels lower.
FoldBoxes == {<<0, 0, PageSize, PageSize>>, <<0, 0, PageSize, PageSize - 4>>}

FoldClasses == {<<>>, <<Cls("bg-white")>>}

\* heap[1] is the artboard, heap[2] the group, heap[3..] the layers of the
\* group in document order.
FoldHeap(page, box, classes) ==
    LET layers == preprocess(page, 1, [multiLineTextFixedWidth |-> FALSE])
    IN  [n \in 1..(Len(page) + 2) |->
            IF n = 1
            THEN [VNode(Px(0), Px(0), Px(PageSize), Px(PageSize), 0)
                     EXCEPT !.children = <<2>>, !.classList = <<Cls("overflow-hidden")>>]
            ELSE IF n = 2
            THEN [VNode(Px(box[1]), Px(box[2]), Px(box[3]), Px(box[4]), 1)
                     EXCEPT !.children = [i \in 1..Len(page) |-> i + 2],
                            !.classList = classes]
            ELSE layers[n - 1]]

InitFold ==
    /\ \E page \in Pages(FoldLayers, MaxGrandchildren), box \in FoldBoxes,
          classes \in FoldClasses :
         /\ heap = FoldHeap(page, box, classes)
         /\ ctxIndex = Len(page) + 2
         /\ out = [op |-> "postprocess", parent |-> heap[1], child |-> heap[2]]
    /\ root = 1
    /\ pc = "running"
    /\ stack = <<Frame(1, "buildTree"), Frame(1, "measureFlexLayout")>>
    /\ defaultConfig = [multiLineTextFixedWidth |-> FALSE]
    /\ runs = <<>>

NextFold == PostprocessSteps

SpecFold == InitFold /\ [][NextFold]_vars

\* The containers of the finished tree that stand between the artboard and
\* a layer of the folded group.
C11_Between ==
    {n \in Descendants(heap, root) :
        Descendants(heap, n) \cap SeqToSet(out.child.children) # {}}

C11_Case == pc = "done" /\ boundsOf(out.child) = boundsOf(out.parent)

\* C11: when the only child of a parent has the parent's bounds, the finished
\* tree no longer holds that child, the parent carries the classes of both,
\* and no container between the parent and the former grandchildren has the
\* parent's size.
C11_OnlyChildFolded ==
    C11_Case =>
        /\ 2 \notin TreeNodes
        /\ \A i \in 1..Len(out.parent.classList) :
                includes(heap[root].classList, out.parent.classList[i])
        /\ \A i \in 1..Len(out.child.classList) :
                includes(heap[root].classList, out.child.classList[i])
        /\ \A n \in C11_Between :
                ~(heap[n].width = heap[root].width /\ heap[n].height = heap[root].height)

C11_Witness ==
    /\ C11_Case
    /\ Len(out.child.children) >= 2
    /\ out.child.classList # <<>>
    /\ 2 \notin TreeNodes
    /\ C11_Between # {}
    /\ SeqToSet(out.child.children) \subseteq Descendants(heap, root)

(***************************************************************************)
(* Specification SpecSize: measureParentSizeSpec on one parent             *)
(***************************************************************************)
MaxSizeChildren == 2

SizeSpecs == {Unknown, Fixed, Auto, Constrained}

\* heap[1] is the parent, heap[2..k+1] its children side by side.
SizeHeap(k, direction, widthSpec, heightSpec, specs) ==
    [n \in 1..(k + 1) |->
        IF n = 1
        THEN [VNode(Px(0), Px(0), Px(10 * MaxSizeChildren), Px(10), 0)
                 EXCEPT !.children = [i \in 1..k |-> i + 1],
                        !.direction = direction,
                        !.widthSpec = widthSpec, !.heightSpec = heightSpec]
        ELSE [VNode(Px(10 * (n - 2)), Px(0), Px(10 * (n - 1)), Px(10), n - 1)
                 EXCEPT !.widthSpec = specs[n - 1][1], !.heightSpec = specs[n - 1][2]]]

InitSize ==
    /\ \E k \in 0..MaxSizeChildren :
         \E direction \in {Unknown, Row, Column}, widthSpec \in SizeSpecs,
            heightSpec \in SizeSpecs, specs \in [1..k -> SizeSpecs \X SizeSpecs] :
            heap = SizeHeap(k, direction, widthSpec, heightSpec, specs)
    /\ root = 1
    /\ pc = "sizing"
    /\ stack = <<>>
    /\ ctxIndex = 0
    /\ defaultConfig = [multiLineTextFixedWidth |-> FALSE]
    /\ runs = <<>>
    /\ out = [op |-> "none"]

MeasureParentSizeSpec ==
    /\ pc = "sizing"
    /\ LET r == measureParentSizeSpec(heap, root)
       IN  /\ heap' = r.heap
           /\ pc' = IF r.status = "ok" THEN "sized" ELSE r.status
    /\ out' = [op |-> "measureParentSizeSpec", parent |-> heap[root]]
    /\ UNCHANGED <<root, stack, ctxIndex, defaultConfig, runs>>

NextSize == MeasureParentSizeSpec

SpecSize == InitSize /\ [][NextSize]_vars

\* Some child of the parent has a spec that is neither Fixed nor Auto.
C12_Case ==
    /\ pc \in {"sized", "error"}
    /\ \E c \in SeqToSet(heap[root].children) :
            \/ heap[c].widthSpec \notin {Fixed, Auto}
            \/ heap[c].heightSpec \notin {Fixed, Auto}

\* C12: measureParentSizeSpec on a parent with a child whose widthSpec or
\* heightSpec is neither Fixed nor Auto ends with an error and leaves the
\* parent's widthSpec and heightSpec as they were.
C12_AssertBeforeAssign ==
    C12_Case =>
        /\ pc = "error"
        /\ heap[root].widthSpec = out.parent.widthSpec
        /\ heap[root].heightSpec = out.parent.heightSpec

C12_Witness ==
    /\ C12_Case
    /\ pc = "error"
    /\ out.parent.direction = Row
    /\ out.parent.widthSpec = Unknown
    /\ \E c \in SeqToSet(heap[root].children) : heap[c].widthSpec = Constrained

(***************************************************************************)
(* Specification SpecListX: the row-list part of buildFlexBox on one       *)
(* sibling list (the sort, groupListXNodes, tryMergeListXNodes).  The      *)
(* siblings do not overlap, as buildMissingNodes leaves them.              *)
(***************************************************************************)
MaxListSiblings == 5

ListBox(l, t, w, h) == [l |-> l, t |-> t, w |-> w, h |-> h]

\* Three bands.  Band 0: boxes 10 wide at 0, 15, 30 and boxes 6 wide at 15, 45
\* and 49.  Band 20: boxes of the size of band 0 at 0 and 15, and lower ones
\* (6 high) at the same places.  Band 40: one wide box.
ListBoxes ==
    <<ListBox(0, 40, 30, 10),
      ListBox(15, 20, 10, 6), ListBox(0, 20, 10, 6),
      ListBox(15, 20, 10, 10), ListBox(0, 20, 10, 10),
      ListBox(49, 0, 6, 10), ListBox(45, 0, 6, 10), ListBox(15, 0, 6, 10),
      ListBox(30, 0, 10, 10), ListBox(15, 0, 10, 10), ListBox(0, 0, 10, 10)>>

RECURSIVE ListPick(_, _)
ListPick(I, i) ==
    IF i > Len(ListBoxes) THEN <<>>
    ELSE (IF i \in I THEN <<ListBoxes[i]>> ELSE <<>>) \o ListPick(I, i + 1)

ListNode(b, idx) == VNode(Px(b.l), Px(b.t), Px(b.l + b.w), Px(b.t + b.h), idx)

\* heap[1] is the parent, heap[2..k+1] its children in document order.
ListHeap(boxes) ==
    [n \in 1..(Len(boxes) + 1) |->
        IF n = 1
        THEN [VNode(Px(0), Px(0), Px(60), Px(60), 0)
                 EXCEPT !.children = [i \in 1..Len(boxes) |-> i + 1]]
        ELSE ListNode(boxes[n - 1], n - 1)]

InitListX ==
    /\ \E I \in SUBSET (1..Len(ListBoxes)) :
         /\ Cardinality(I) \in 1..MaxListSiblings
         /\ \A i, j \in I :
                i # j => ~isOverlapping(ListNode(ListBoxes[i], 0), ListNode(ListBoxes[j], 0))
         /\ heap = ListHeap(ListPick(I, 1))
         /\ ctxIndex = Cardinality(I) + 1
    /\ root = 1
    /\ pc = "siblings"
    /\ stack = <<>>
    /\ defaultConfig = [multiLineTextFixedWidth |-> FALSE]
    /\ runs = <<>>
    /\ out = [op |-> "none"]

\* parent.children.sort(...); parent.children = groupListXNodes(parent.children);
GroupListXNodes ==
    /\ pc = "siblings"
    /\ LET r == groupListXNodes(heap, sortChildren(heap, heap[root].children), ctxIndex)
       IN  /\ heap' = [r.heap EXCEPT ![root].children = r.nodes]
           /\ ctxIndex' = r.index
           /\ pc' = IF r.status = "ok" THEN "listed" ELSE r.status
    /\ out' = [op |-> "groupListXNodes", nodes |-> sortChildren(heap, heap[root].children)]
    /\ UNCHANGED <<root, stack, defaultConfig, runs>>

\* parent.children = tryMergeListXNodes(parent.children);
TryMergeListXNodes ==
    /\ pc = "listed"
    /\ LET r == tryMergeListXNodes(heap, heap[root].children, ctxIndex)
       IN  /\ heap' = [r.heap EXCEPT ![root].children = r.nodes]
           /\ ctxIndex' = r.index
           /\ pc' = IF r.status = "ok" THEN "merged" ELSE r.status
    /\ out' = [op |-> "tryMergeListXNodes", nodes |-> heap[root].children]
    /\ UNCHANGED <<root, stack, defaultConfig, runs>>

NextListX == GroupListXNodes \/ TryMergeListXNodes

SpecListX == InitListX /\ [][NextListX]_vars

\* C13: groupListXNodes, whose only statement that can throw is the call of
\* findFlexWrap, never ends a conversion with an exception, and every sibling
\* is afterwards a child of the parent or an item (or part of an item) of a
\* list.
C13_FlexWrapNeverAborts ==
    out.op = "groupListXNodes" =>
        /\ pc # "error"
        /\ \A i \in 1..Len(out.nodes) : out.nodes[i] \in Descendants(heap, root)

\* The composite row lists among the children of the parent: list-x
\* containers whose items are containers of several nodes.
C18_CompositeLists ==
    {c \in SeqToSet(heap[root].children) :
        /\ heap[c].role = "list-x"
        /\ \A i \in 1..Len(heap[c].children) : Len(heap[heap[c].children[i]].children) > 1}

\* C18: a composite row list that groupListXNodes emits without flex-wrap
\* extension has, in every two of its items, the same gaps between
\* corresponding inner children, within the tolerance.
C18_InnerGapsMatch ==
    (pc = "listed" /\ out.op = "groupListXNodes") =>
        \A c \in C18_CompositeLists :
            \A i, j \in 1..Len(heap[c].children) :
                LET a == gapsBetween(heap, heap[heap[c].children[i]].children)
                    b == gapsBetween(heap, heap[heap[c].children[j]].children)
                IN  \A k \in 1..Len(a) : numSame(a[k], b[k])

\* A sibling is kept by the merge when it is still below the parent, or when
\* it is a row list whose items all are.
C19_Kept(n) ==
    \/ n \in Descendants(heap, root)
    \/ /\ heap[n].role = "list-x"
       /\ heap[n].children # <<>>
       /\ SeqToSet(heap[n].children) \subseteq Descendants(heap, root)

\* C19: after tryMergeListXNodes every node of the sibling list it was given
\* is an element of the returned list or below it, a merged row list being
\* replaced by its items.
C19_MergeConservesNodes ==
    (pc = "merged" /\ out.op = "tryMergeListXNodes") =>
        \A i \in 1..Len(out.nodes) : C19_Kept(out.nodes[i])

\* The siblings of the input list that contain sibling s.
C14_Containers(s) ==
    {p \in SeqToSet(out.nodes) \ {s} : isContainedWithin(heap[s], heap[p])}

C14_Area(n) == heap[n].width * heap[n].height

\* C14: after buildMissingNodes a sibling that is contained in one or more
\* siblings is a child of a containing sibling of smallest area, whatever the
\* order of the list and whatever other siblings it overlaps.
C14_SmallestContainer ==
    (pc = "siblingsBuilt" /\ out.op = "buildMissingNodes") =>
        \A s \in SeqToSet(out.nodes) :
            C14_Containers(s) # {} =>
                \E p \in C14_Containers(s) :
                    /\ s \in SeqToSet(heap[p].children)
                    /\ \A q \in C14_Containers(s) : C14_Area(p) <= C14_Area(q)

\* C15: after buildMissingNodes no two nodes left in parent.children overlap
\* on both axes.
C15_FlowChildrenDisjoint ==
    (pc = "siblingsBuilt" /\ out.op = "buildMissingNodes") =>
        \A i, j \in 1..Len(heap[root].children) :
            i # j => ~isOverlapping(heap[heap[root].children[i]], heap[heap[root].children[j]])

\* Two siblings stay as flow children while a third, which overlapped one of
\* them, was taken out of the list.
C15_Witness ==
    /\ pc = "siblingsBuilt"
    /\ out.op = "buildMissingNodes"
    /\ Len(heap[root].children) >= 2
    /\ \E s \in SeqToSet(out.nodes) :
            /\ s \notin SeqToSet(heap[root].children)
            /\ \E c \in SeqToSet(heap[root].children) : isOverlapping(heap[s], heap[c])

(***************************************************************************)
(* Specification SpecListY: groupListYNodes on one Column parent, whose    *)
(* children lie below one another, sorted by their tops as                 *)
(* setFlexDirection leaves them.                                           *)
(***************************************************************************)
MaxColumnChildren == 4

ColumnWidths == {10, 20}
ColumnGaps == {5, 9}

\* top of child i: every child is 10 high and gap[i] below the one before
RECURSIVE ColumnTop(_, _)
ColumnTop(gap, i) == IF i = 1 THEN gap[1] ELSE ColumnTop(gap, i - 1) + 10 + gap[i]

\* heap[1] is the parent, heap[2..k+1] its children from top to bottom.
ColumnHeap(k, width, gap) ==
    [n \in 1..(k + 1) |->
        IF n = 1
        THEN [VNode(Px(0), Px(0), Px(20), Px(20 * MaxColumnChildren), 0)
                 EXCEPT !.children = [i \in 1..k |-> i + 1], !.direction = Column]
        ELSE VNode(Px(0), Px(ColumnTop(gap, n - 1)), Px(width[n - 1]),
                   Px(ColumnTop(gap, n - 1) + 10), n - 1)]

InitListY ==
    /\ \E k \in 2..MaxColumnChildren :
         \E width \in [1..k -> ColumnWidths], gap \in [1..k -> ColumnGaps] :
            /\ heap = ColumnHeap(k, width, gap)
            /\ ctxIndex = k + 1
    /\ root = 1
    /\ pc = "column"
    /\ stack = <<>>
    /\ defaultConfig = [multiLineTextFixedWidth |-> FALSE]
    /\ runs = <<>>
    /\ out = [op |-> "none"]

GroupListYNodes ==
    /\ pc = "column"
    /\ LET r == groupListYNodes(heap, root, ctxIndex)
       IN  /\ heap' = r.heap
           /\ ctxIndex' = r.index
           /\ pc' = IF r.status = "ok" THEN "columnListed" ELSE r.status
    /\ out' = [op |-> "groupListYNodes", nodes |-> heap[root].children, before |-> heap]
    /\ UNCHANGED <<root, stack, defaultConfig, runs>>

NextListY == GroupListYNodes

SpecListY == InitListY /\ [][NextListY]_vars

\* The first run of vertically similar boxes in the list the call was given:
\* positions from..to, from = 0 when no two neighbours are similar.
ListYSimilar(i) == isSimilarBoxY(heap[out.nodes[i]], heap[out.nodes[i - 1]])

ListYRun ==
    IF ~\E i \in 2..Len(out.nodes) : ListYSimilar(i) THEN [from |-> 0, to |-> 0]
    ELSE LET i == CHOOSE k \in 2..Len(out.nodes) :
                      ListYSimilar(k) /\ \A j \in 2..(k - 1) : ~ListYSimilar(j)
             e == CHOOSE k \in i..Len(out.nodes) :
                      /\ \A j \in i..k : ListYSimilar(j)
                      /\ (k < Len(out.nodes) => ~ListYSimilar(k + 1))
         IN  [from |-> i - 1, to |-> e]

\* next.top - previous.bottom along the run
ListYGaps ==
    [k \in 1..(ListYRun.to - ListYRun.from) |->
        heap[out.nodes[ListYRun.from + k]].top - heap[out.nodes[ListYRun.from + k - 1]].bottom]

ListYFolded ==
    \/ heap[root].role = "list-y"
    \/ \E c \in SeqToSet(heap[root].children) : heap[c].role = "list-y"

\* C16: groupListYNodes returns, and a run of k >= 2 vertically similar boxes
\* with uniform gaps is folded as a whole: the parent becomes list-y when the
\* run is the whole list, else a list-y child with exactly the k boxes takes
\* their place.
C16_ColumnListTerminates ==
    out.op = "groupListYNodes" =>
        /\ pc # "hang"
        /\ (ListYRun.from # 0 /\ uniqWithIsOne(ListYGaps)) =>
              IF ListYRun.from = 1 /\ ListYRun.to = Len(out.nodes)
              THEN heap[root].role = "list-y" /\ heap[root].children = out.nodes
              ELSE \E c \in SeqToSet(heap[root].children) :
                      /\ heap[c].role = "list-y"
                      /\ heap[c].children = SubSeq(out.nodes, ListYRun.from, ListYRun.to)
                      /\ heap[root].children =
                             splice(out.nodes, ListYRun.from,
                                    ListYRun.to - ListYRun.from + 1, <<c>>)

\* C17: when the vertical gaps along the run are not uniform within the
\* tolerance, groupListYNodes returns and has grouped nothing.
C17_UniformGapsOnly ==
    (out.op = "groupListYNodes" /\ ListYRun.from # 0 /\ ~uniqWithIsOne(ListYGaps)) =>
        /\ pc = "columnListed"
        /\ ~ListYFolded
        /\ heap[root].children = out.nodes

(***************************************************************************)
(* The Direction Grouper on one parent: parent.children =                  *)
(* groupNodes(parent.children) of buildFlexBox, on children that the sort  *)
(* of buildFlexBox has ordered.                                            *)
(***************************************************************************)
MaxBandSiblings == 5

\* A tall box that spans the band 0..20, boxes in three rows left of it, one
\* box below the band, and three equal boxes stacked right of the tall box.
BandBoxes ==
    <<ListBox(40, 0, 10, 20),
      ListBox(0, 0, 10, 4), ListBox(20, 0, 10, 4),
      ListBox(5, 5, 20, 4), ListBox(32, 5, 6, 4),
      ListBox(0, 10, 8, 6), ListBox(12, 12, 6, 4),
      ListBox(0, 30, 50, 5),
      ListBox(52, 0, 6, 4), ListBox(52, 6, 6, 4), ListBox(52, 12, 6, 4)>>

RECURSIVE BandPick(_, _)
BandPick(I, i) ==
    IF i > Len(BandBoxes) THEN <<>>
    ELSE (IF i \in I THEN <<BandBoxes[i]>> ELSE <<>>) \o BandPick(I, i + 1)

\* heap[1] is the parent; its children are in the order of buildFlexBox's sort.
BandHeap(boxes) ==
    LET h == ListHeap(boxes)
    IN  [h EXCEPT ![1].children = sortChildren(h, @)]

InitBand ==
    /\ \E I \in SUBSET (1..Len(BandBoxes)) :
         /\ Cardinality(I) \in 2..MaxBandSiblings
         /\ heap = BandHeap(BandPick(I, 1))
         /\ ctxIndex = Cardinality(I) + 1
    /\ root = 1
    /\ pc = "sorted"
    /\ stack = <<>>
    /\ defaultConfig = [multiLineTextFixedWidth |-> FALSE]
    /\ runs = <<>>
    /\ out = [op |-> "none"]

\* intersectingNodes of groupNodes(nodes): the members of the band of the
\* highest node
bandOf(h, nodes) ==
    LET highestNode == highestOf(h, nodes)
        inside(n) == /\ h[n].top >= h[highestNode].top
                     /\ h[n].bottom <= h[highestNode].bottom
    IN  SelectSeq(nodes, inside)

\* parent.children = groupNodes(parent.children); out keeps the band of the
\* call and the groups groupNodesByOverlapX made of it.
GroupNodes ==
    /\ pc = "sorted"
    /\ LET r == groupNodes(heap, heap[root].children, ctxIndex, {})
       IN  /\ heap' = [r.heap EXCEPT ![root].children = r.nodes]
           /\ ctxIndex' = r.index
           /\ pc' = IF r.status = "ok" THEN "grouped" ELSE r.status
    /\ out' = [op |-> "groupNodes",
               before |-> heap[root].children,
               band |-> bandOf(heap, heap[root].children),
               groups |-> groupNodesByOverlapX(heap, bandOf(heap, heap[root].children))]
    /\ UNCHANGED <<root, stack, defaultConfig, runs>>

NextBand == GroupNodes

SpecBand == InitBand /\ [][NextBand]_vars

\* The members of the band linked to a member of S by a chain of horizontally
\* overlapping members
RECURSIVE BandLinked(_)
BandLinked(S) ==
    LET more == S \cup {m \in SeqToSet(out.band) :
                          \E s \in S : \/ isOverlappingX(heap[m], heap[s])
                                       \/ isOverlappingX(heap[s], heap[m])}
    IN  IF more = S THEN S ELSE BandLinked(more)

BandSameCluster(a, b) ==
    \E g \in 1..Len(out.groups) :
        a \in SeqToSet(out.groups[g]) /\ b \in SeqToSet(out.groups[g])

\* C20: two members of the band are in the same group of groupNodesByOverlapX
\* exactly when a chain of horizontally overlapping members links them, and
\* no member of one group overlaps a member of another on the X axis.
C20_ClustersAreOverlapClasses ==
    (out.op = "groupNodes" /\ Len(out.band) > 1) =>
        /\ \A a, b \in SeqToSet(out.band) : BandSameCluster(a, b) <=> b \in BandLinked({a})
        /\ \A g1, g2 \in 1..Len(out.groups) :
              g1 # g2 => \A a \in SeqToSet(out.groups[g1]), b \in SeqToSet(out.groups[g2]) :
                            ~isOverlappingX(heap[a], heap[b])

(***************************************************************************)
(* Specification SpecGroup: postprocess on artboards whose layers lie in   *)
(* the band of a tall layer, stacked beside it, or below the band.         *)
(***************************************************************************)
MaxGroupChildren == 4

GroupLayers ==
    {Layer(<<30, 0, 40, 20>>, "none", FALSE),
     Layer(<<0, 0, 10, 4>>, "none", FALSE),
     Layer(<<0, 5, 10, 15>>, "none", FALSE),
     Layer(<<0, 16, 8, 20>>, "none", FALSE),
     Layer(<<15, 0, 25, 10>>, "none", FALSE),
     Layer(<<15, 12, 22, 18>>, "none", FALSE),
     Layer(<<0, 30, 5, 38>>, "none", FALSE)}

InitGroup ==
    /\ \E page \in Pages(GroupLayers, MaxGroupChildren) :
         /\ heap = preprocess(page, 0, [multiLineTextFixedWidth |-> FALSE])
         /\ ctxIndex = Len(page) + 1
         /\ out = [op |-> "postprocess", layers |-> Len(page)]
    /\ root = 1
    /\ pc = "running"
    /\ stack = <<Frame(1, "buildTree"), Frame(1, "measureFlexLayout")>>
    /\ defaultConfig = [multiLineTextFixedWidth |-> FALSE]
    /\ runs = <<>>

NextGroup == PostprocessSteps

SpecGroup == InitGroup /\ [][NextGroup]_vars

\* buildTree(vnode) of postprocess has returned, measureTree has not begun.
BuildPhaseEnded == pc = "running" /\ stack = <<Frame(root, "measureFlexLayout")>>

\* The boxes of the tree that the conversion has made itself
GroupSynthesized == {n \in TreeNodes : n > out.layers + 1}

GroupOrdered(n, side) ==
    \A i \in 2..Len(heap[n].children) :
        heap[heap[n].children[i - 1]][side] <= heap[heap[n].children[i]][side]

\* C21: when the build phase ends, the children of every synthesized Column
\* box are in the order of their tops and the children of every synthesized
\* Row box in the order of their lefts.
C21_SynthesizedBoxesOrdered ==
    BuildPhaseEnded =>
        \A n \in GroupSynthesized :
            /\ heap[n].direction = Column => GroupOrdered(n, "top")
            /\ heap[n].direction = Row => GroupOrdered(n, "left")

\* The layers of the page, which are the flow children of the artboard
GroupLayerNodes == 2..(out.layers + 1)

\* All layers lie in the band of one of them and no two share a column.
GroupOneBand ==
    /\ out.layers > 1
    /\ \E hi \in GroupLayerNodes :
          \A n \in GroupLayerNodes : isContainedWithinY(heap[n], heap[hi])
    /\ \A a, b \in GroupLayerNodes : a # b => ~isOverlappingX(heap[a], heap[b])

\* The direction buildFlexBox leaves on node n, whose children are what
\* groupNodes has returned: the statements after groupNodes.
GroupDirectionAfter(n) ==
    setFlexDirection(mergeUnnessaryFlexBox(heap, n), n, ctxIndex).heap[n].direction

\* C22: a parent for which groupNodes returned exactly one node leaves
\* buildFlexBox with direction Row, one for which it returned several with
\* direction Column; an artboard whose layers lie side by side in one band
\* has direction Row when the build phase ends.
C22_DirectionByTopLevelCount ==
    /\ Now("mergeUnnessaryFlexBox") =>
          LET n == stack[1].node
          IN  /\ Len(heap[n].children) = 1 => GroupDirectionAfter(n) = Row
              /\ Len(heap[n].children) > 1 => GroupDirectionAfter(n) = Column
    /\ (BuildPhaseEnded /\ GroupOneBand) => heap[root].direction = Row

(***************************************************************************)
(* Specification SpecLayout: measureFlexLayout on one container whose      *)
(* children have the size specs measureParentSizeSpec lets through.        *)
(***************************************************************************)
MaxLayoutChildren == 2

\* Start and end of a child on the cross axis of a container that is 20 deep
LayoutSpans == {<<0, 20>>, <<0, 10>>, <<10, 20>>, <<5, 15>>}

\* heap[1] is the container, 40 long and 20 deep; child i lies at 12 * (i - 1)
\* on the main axis and is 10 long.
LayoutHeap(k, direction, widthSpec, heightSpec, span, mainSpec, crossSpec) ==
    [n \in 1..(k + 1) |->
        IF n = 1
        THEN [(IF direction = Row THEN VNode(Px(0), Px(0), Px(40), Px(20), 0)
               ELSE VNode(Px(0), Px(0), Px(20), Px(40), 0))
                 EXCEPT !.children = [i \in 1..k |-> i + 1],
                        !.direction = direction,
                        !.widthSpec = widthSpec, !.heightSpec = heightSpec]
        ELSE LET from == 12 * (n - 2)
                 s == span[n - 1][1]
                 e == span[n - 1][2]
             IN  IF direction = Row
                 THEN [VNode(Px(from), Px(s), Px(from + 10), Px(e), n - 1)
                          EXCEPT !.widthSpec = mainSpec, !.heightSpec = crossSpec[n - 1]]
                 ELSE [VNode(Px(s), Px(from), Px(e), Px(from + 10), n - 1)
                          EXCEPT !.heightSpec = mainSpec, !.widthSpec = crossSpec[n - 1]]]

InitLayout ==
    /\ \E k \in 1..MaxLayoutChildren :
         \E direction \in {Row, Column}, widthSpec \in {Fixed, Auto, Constrained},
            heightSpec \in {Fixed, Auto, Constrained}, span \in [1..k -> LayoutSpans],
            mainSpec \in {Fixed, Auto}, crossSpec \in [1..k -> {Fixed, Auto}] :
            /\ heap = LayoutHeap(k, direction, widthSpec, heightSpec, span, mainSpec, crossSpec)
            /\ ctxIndex = k + 1
    /\ root = 1
    /\ pc = "measuring"
    /\ stack = <<>>
    /\ defaultConfig = [multiLineTextFixedWidth |-> FALSE]
    /\ runs = <<>>
    /\ out = [op |-> "none"]

\* measureFlexLayout(vnode) of measureTree; out keeps the tree as it was.
MeasureFlexLayout ==
    /\ pc = "measuring"
    /\ LET r == measureFlexLayout(heap, root, ctxIndex)
       IN  /\ heap' = r.heap
           /\ ctxIndex' = r.index
           /\ pc' = IF r.status = "ok" THEN "measured" ELSE r.status
    /\ out' = [op |-> "measureFlexLayout", before |-> heap]
    /\ UNCHANGED <<root, stack, defaultConfig, runs>>

NextLayout == MeasureFlexLayout

SpecLayout == InitLayout /\ [][NextLayout]_vars

LayoutMainSpec == IF heap[root].direction = Row THEN "widthSpec" ELSE "heightSpec"
LayoutCrossSpec == IF heap[root].direction = Row THEN "heightSpec" ELSE "widthSpec"

\* The children the container had when measureFlexLayout began
LayoutChildren == SeqToSet(out.before[root].children)

\* C23: after the measure step of a container, a child that was Auto on the
\* main axis is Constrained there when the container's main-axis spec is
\* Constrained, a child that was Auto on the cross axis is Constrained there
\* when the container's cross-axis spec is Constrained, and a child that was
\* Fixed on an axis is still Fixed on it.
C23_AutoChildrenPromoted ==
    (out.op = "measureFlexLayout" /\ pc = "measured") =>
        \A c \in LayoutChildren :
            /\ (/\ heap[root][LayoutMainSpec] = Constrained
                /\ out.before[c][LayoutMainSpec] = Auto)
                   => heap[c][LayoutMainSpec] = Constrained
            /\ (/\ heap[root][LayoutCrossSpec] = Constrained
                /\ out.before[c][LayoutCrossSpec] = Auto)
                   => heap[c][LayoutCrossSpec] = Constrained
            /\ \A spec \in {"widthSpec", "heightSpec"} :
                   out.before[c][spec] = Fixed => heap[c][spec] = Fixed

\* The margins of child c as the container found it: its offsets from the
\* container's cross-axis edges and their difference.
LayoutMargin(c, key) ==
    LET p == out.before[root]
        n == out.before[c]
        start == n[sfOf(p)] - p[sfOf(p)]
        end == p[efOf(p)] - n[efOf(p)]
    IN  CASE key = "marginStart" -> start
          [] key = "marginEnd" -> end
          [] key = "marginDiff" -> start - end

\* The size of the largest group of children with near-equal margins, 0 when
\* the group does not hold more than half of the children.
LayoutGroup(key) ==
    LET size(c) == Cardinality({d \in LayoutChildren :
                                   numSame(LayoutMargin(d, key), LayoutMargin(c, key))})
        most == CHOOSE m \in {size(c) : c \in LayoutChildren} :
                    \A c \in LayoutChildren : size(c) <= m
    IN  IF most * 2 > Cardinality(LayoutChildren) THEN most ELSE 0

\* The strategy the largest group asks for
LayoutStrategy ==
    LET diff == LayoutGroup("marginDiff")
        start == LayoutGroup("marginStart")
        end == LayoutGroup("marginEnd")
    IN  IF diff = 0 /\ start = 0 /\ end = 0 THEN "stretch"
        ELSE IF diff >= start /\ diff >= end THEN "center"
        ELSE IF start >= end THEN "start"
        ELSE "end"

\* The strategies whose mark the container carries: the items-* class of the
\* three aligned strategies, and for default-stretch a child promoted from
\* Auto to Constrained on the cross axis.
LayoutApplied ==
    {s \in {"center", "start", "end"} :
        includes(heap[root].classList, Cls("items-" \o s))}
    \cup {s \in {"stretch"} :
            \E c \in LayoutChildren : /\ out.before[c][LayoutCrossSpec] = Auto
                                      /\ heap[c][LayoutCrossSpec] = Constrained}

C24_Case ==
    /\ out.op = "measureFlexLayout"
    /\ pc = "measured"
    /\ heap[root][LayoutCrossSpec] # Constrained

LayoutLength(classList, name) ==
    LET values == {w[1][2] : w \in {x \in Words(classList) :
                                       Len(x) = 1 /\ Len(x[1]) = 2 /\ x[1][1] = name}}
    IN  IF values = {} THEN 0 ELSE CHOOSE v \in values : TRUE

\* Padding of the container and margin of child c at the start (the end) of
\* the cross axis, as the classes written by the measure step give them.
LayoutStartInset(c) ==
    LET p == heap[root]
        xy == IF p.direction = Row THEN "y" ELSE "x"
    IN  LayoutLength(p.classList, "p" \o sOf(p)) + LayoutLength(p.classList, "p" \o xy)
        + LayoutLength(heap[c].classList, "m" \o sOf(p))

LayoutEndInset(c) ==
    LET p == heap[root]
        xy == IF p.direction = Row THEN "y" ELSE "x"
    IN  LayoutLength(p.classList, "p" \o eOf(p)) + LayoutLength(p.classList, "p" \o xy)
        + LayoutLength(heap[c].classList, "m" \o eOf(p))

\* measureFlexAlign took the default-stretch branch.
C25_Case ==
    /\ out.op = "measureFlexLayout"
    /\ pc = "measured"
    /\ (heap[root][LayoutCrossSpec] = Constrained \/ LayoutStrategy = "stretch")

\* C25: in the default-stretch branch every child that was Auto on the cross
\* axis is Constrained there, and the container's padding plus the child's
\* margin equals the child's original offset, at the start and at the end of
\* the cross axis.
C25_StretchKeepsExtent ==
    C25_Case =>
        \A c \in LayoutChildren :
            out.before[c][LayoutCrossSpec] = Auto =>
                /\ heap[c][LayoutCrossSpec] = Constrained
                /\ LayoutStartInset(c) = LayoutMargin(c, "marginStart")
                /\ LayoutEndInset(c) = LayoutMargin(c, "marginEnd")

\* The values of the classes name-<value> among the classes of the container
JustifyPaddings(name) ==
    {w[1][2] : w \in {x \in Words(heap[root].classList) :
                         Len(x) = 1 /\ Len(x[1]) = 2 /\ x[1][1] = name}}

\* C26: after the justification engine has run, a padding class on the start
\* edge of the main axis carries the leading gap, a padding class on the end
\* edge the trailing gap, and a padding class for both edges a value both
\* gaps agree with.
C26_PaddingIsOwnGap ==
    pc = "justified" =>
        LET p == out.before[root]
            leading == BeforeGaps[1]
            trailing == BeforeGaps[Len(BeforeGaps)]
        IN  /\ \A v \in JustifyPaddings("p" \o ssOf(p)) : v = leading
            /\ \A v \in JustifyPaddings("p" \o eeOf(p)) : v = trailing
            /\ \A v \in JustifyPaddings("p" \o xyOf(p)) : numSame(v, leading) /\ numSame(v, trailing)

\* The children of the Column parent that are not in the run
ListYOutside ==
    {out.nodes[i] : i \in {k \in 1..Len(out.nodes) : k < ListYRun.from \/ k > ListYRun.to}}

\* C27: when groupListYNodes has returned, every child outside the run has
\* the role and the heightSpec it had before, and when the gaps of the run
\* are not uniform every node is as it was.
C27_OnlyRunNodesChanged ==
    (out.op = "groupListYNodes" /\ pc = "columnListed") =>
        /\ \A c \in ListYOutside :
              /\ heap[c].role = out.before[c].role
              /\ heap[c].heightSpec = out.before[c].heightSpec
        /\ (ListYRun.from # 0 /\ ~uniqWithIsOne(ListYGaps)) =>
              \A n \in 1..Len(out.before) : heap[n] = out.before[n]

\* The places where node n is a child in the tree below root
BandPlaces(n) ==
    {<<m, i>> \in TreeNodes \X (1..Len(heap)) :
        i <= Len(heap[m].children) /\ heap[m].children[i] = n}

\* C28: groupNodes returns for every list of pairwise non-overlapping nodes
\* (no call of the recursion meets its own argument again), and every node of
\* the list is a child at exactly one place of the returned structure.
C28_GroupNodesTerminates ==
    out.op = "groupNodes" =>
        /\ pc = "grouped"
        /\ \A n \in SeqToSet(out.before) : Cardinality(BandPlaces(n)) = 1

(***************************************************************************)
(* Specification SpecImages: calls of replaceHtmlImages that share         *)
(* window.cacheImageMap (index.ts).  A call runs without interruption up   *)
(* to an await; while it waits for getProcessedImageUrl other calls may    *)
(* start or go on.  heap is window.cacheImageMap, runs the calls made so   *)
(* far, out.invoked the number of getProcessedImageUrl calls per cacheKey. *)
(***************************************************************************)
MaxCalls == 3

ImageKeys == {"a.png", "b.png"}

\* imageMap of a call: the cacheKeys of the images of its html, each once
ImageMaps == {<<>>} \cup {<<k>> : k \in ImageKeys}
             \cup {<<k1, k2>> : <<k1, k2>> \in {p \in ImageKeys \X ImageKeys : p[1] # p[2]}}

InitImages ==
    /\ heap = {}
    /\ runs = <<>>
    /\ out = [op |-> "replaceHtmlImages", invoked |-> [k \in ImageKeys |-> 0]]
    /\ root = 0
    /\ pc = "images"
    /\ stack = <<>>
    /\ ctxIndex = 0
    /\ defaultConfig = [multiLineTextFixedWidth |-> FALSE]

\* The loop `for (const originalClassName in imageMap)` of call c from image
\* c.pos on, up to the await of getProcessedImageUrl or to the return.
RECURSIVE replaceHtmlImagesFrom(_, _, _)
replaceHtmlImagesFrom(c, cacheImageMap, invoked) ==
    IF c.pos > Len(c.imageMap)
    THEN [call |-> [c EXCEPT !.at = "returned"], invoked |-> invoked]
    ELSE LET cacheKey == c.imageMap[c.pos]
         IN  IF cacheKey \notin cacheImageMap
             THEN [call |-> [c EXCEPT !.at = "await"],
                   invoked |-> [invoked EXCEPT ![cacheKey] = @ + 1]]
             ELSE replaceHtmlImagesFrom([c EXCEPT !.pos = @ + 1, !.processedBefore = TRUE],
                                        cacheImageMap, invoked)

\* A call of replaceHtmlImages, up to its first await or its return
ReplaceHtmlImages ==
    /\ pc = "images"
    /\ Len(runs) < MaxCalls
    /\ \E imageMap \in ImageMaps :
         LET r == replaceHtmlImagesFrom([imageMap |-> imageMap, pos |-> 1, at |-> "called",
                                         processedBefore |-> FALSE],
                                        heap, out.invoked)
         IN  /\ runs' = Append(runs, r.call)
             /\ out' = [out EXCEPT !.invoked = r.invoked]
    /\ UNCHANGED <<heap, root, pc, stack, ctxIndex, defaultConfig>>

\* getProcessedImageUrl of call i has resolved: cacheImageMap.add(cacheKey),
\* the html.replace, and the loop goes on.
GetProcessedImageUrlResolved ==
    /\ pc = "images"
    /\ \E i \in 1..Len(runs) :
         /\ runs[i].at = "await"
         /\ LET cacheKey == runs[i].imageMap[runs[i].pos]
                r == replaceHtmlImagesFrom([runs[i] EXCEPT !.pos = @ + 1],
                                           heap \cup {cacheKey}, out.invoked)
            IN  /\ heap' = heap \cup {cacheKey}
                /\ runs' = [runs EXCEPT ![i] = r.call]
                /\ out' = [out EXCEPT !.invoked = r.invoked]
    /\ UNCHANGED <<root, pc, stack, ctxIndex, defaultConfig>>

NextImages == ReplaceHtmlImages \/ GetProcessedImageUrlResolved

SpecImages == InitImages /\ [][NextImages]_vars

\* C29: getProcessedImageUrl has been invoked at most once for every
\* cacheKey, whatever the interleaving of the calls.
C29_ProcessedOncePerKey ==
    out.op = "replaceHtmlImages" => \A k \in ImageKeys : out.invoked[k] <= 1

\* measureFlexLayout is about to run measureFlexAlign on the container at the
\* head of the stack.
C30_Case ==
    /\ Now("measureFlexLayout")
    /\ heap[stack[1].node].direction # Unknown
    /\ heap[stack[1].node].children # <<>>
    /\ heap[stack[1].node].role \notin {"list-wrap", "list-x", "list-y"}

\* C30: whenever measureFlexAlign is about to run on a container, the
\* cross-axis spec of every child is Fixed or Auto, so that defaultAlignStretch
\* cannot reach unreachable().
C30_ChildrenFixedOrAuto ==
    C30_Case =>
        LET p == heap[stack[1].node]
        IN  \A c \in SeqToSet(p.children) : heap[c][alignSpecOf(p)] \in {Fixed, Auto}

\* A container that its own parent's measure step has made Constrained is
\* measured, with a child that is Auto on the container's cross axis.
C30_Witness ==
    /\ C30_Case
    /\ LET p == heap[stack[1].node]
       IN  /\ stack[1].node # root
           /\ (p.widthSpec = Constrained \/ p.heightSpec = Constrained)
           /\ \E c \in SeqToSet(p.children) : heap[c][alignSpecOf(p)] = Auto

====
